---- MODULE Spec2Model ----
(***************************************************************************)
(* A model of the Living Resume template parser (parse-profile.ts): the    *)
(* text helpers, the section / field / list / table extractors, the        *)
(* assembly of the nine endpoint records and the writing of the endpoint   *)
(* files.                                                                  *)
(*                                                                         *)
(* Text is modelled character by character: a JavaScript string is a       *)
(* sequence of one-character strings, so that indexOf, slice, split, trim  *)
(* and the regular expressions of the source act on the same characters as *)
(* in the program.  Positions are 0-based as in JavaScript.                *)
(***************************************************************************)
EXTENDS Integers, Sequences, FiniteSets, TLC

VARIABLES
    pc,       \* position of the run under study
    content,  \* the text handed to the operation (TEMPLATE.md for the parser)
    arg,      \* second argument of a helper (label, marker or heading)
    ret,      \* value returned by the helper under study
    data,     \* ProfileData returned by parseTemplate (NoData before a parse)
    prev,     \* what the previous parser run returned, and where the user edited since
    dir       \* the output directory: file name -> what the file holds

vars == <<pc, content, arg, ret, data, prev, dir>>

\* ------------------------------------------------------------------------
\* JavaScript string primitives
\* ------------------------------------------------------------------------

NL == "\n"

\* \s of the regular expressions and the characters String.trim removes
\* (the characters of that class that the modelled texts use)
IsSpace(c) == c \in {" ", "\n", "\t"}

Min(S) == CHOOSE x \in S : \A y \in S : x <= y

\* s.slice(from, to) for 0 <= from
Slice(s, from, to) == SubSeq(s, from + 1, IF to > Len(s) THEN Len(s) ELSE to)

\* s.slice(from)
SliceFrom(s, from) == SubSeq(s, from + 1, Len(s))

\* s.startsWith(p)
StartsWith(s, p) == Len(p) <= Len(s) /\ SubSeq(s, 1, Len(p)) = p

\* the positions (0-based) at which m occurs in s
Occurrences(s, m) ==
    {i \in 0..(Len(s) - Len(m)) : SubSeq(s, i + 1, i + Len(m)) = m}

\* s.indexOf(m): the first position of m in s, -1 when there is none
IndexOf(s, m) ==
    LET occ == Occurrences(s, m) IN IF occ = {} THEN -1 ELSE Min(occ)

\* s.includes(m)
Includes(s, m) == Occurrences(s, m) # {}

\* s.trim() (also .replace(/^\s+|\s+$/g, ""))
Trim(s) ==
    LET keep == {i \in 1..Len(s) : ~IsSpace(s[i])}
    IN  IF keep = {} THEN <<>>
        ELSE SubSeq(s, Min(keep), CHOOSE i \in keep : \A j \in keep : j <= i)

\* the k-th smallest element of a set of numbers, and the set in increasing order
Nth(S, k) == CHOOSE i \in S : Cardinality({j \in S : j <= i}) = k

Ascending(S) == [k \in 1..Cardinality(S) |-> Nth(S, k)]

\* s.split(sep) for a one-character separator: the pieces between the
\* separators, always at least one piece
Split(s, sep) ==
    LET at == Ascending({i \in 1..Len(s) : s[i] = sep})
        n == Len(at)
    IN  [k \in 1..(n + 1) |->
            SubSeq(s, IF k = 1 THEN 1 ELSE at[k - 1] + 1,
                      IF k = n + 1 THEN Len(s) ELSE at[k] - 1)]

\* s.replace(/<!--.*?-->/gs, ""): every complete comment span, leftmost first,
\* each ending at the first "-->" after its opening "<!--"
CommentOpen == <<"<", "!", "-", "-">>
CommentClose == <<"-", "-", ">">>

RECURSIVE StripComments(_)
StripComments(s) ==
    LET open == IndexOf(s, CommentOpen)
    IN  IF open = -1 THEN s
        ELSE LET rest == SliceFrom(s, open + Len(CommentOpen))
                 close == IndexOf(rest, CommentClose)
             IN  IF close = -1 THEN s
                 ELSE Slice(s, 0, open)
                      \o StripComments(SliceFrom(rest, close + Len(CommentClose)))

\* a replacement that drops the newlines
CollapseNewlines_Drop(s) == SelectSeq(s, LAMBDA c : c # NL)

\* s.replace(/\n+/g, " "): each run of newlines becomes one space
CollapseNewlines(s) ==
    LET keep == Ascending({i \in 1..Len(s) : s[i] # NL \/ i = 1 \/ s[i - 1] # NL})
    IN  [k \in 1..Len(keep) |-> IF s[keep[k]] = NL THEN " " ELSE s[keep[k]]]

\* cleanValue without the removal of the annotation spans
cleanValue_KeepSpans(s) == Trim(CollapseNewlines(Trim(s)))

cleanValue(s) == Trim(CollapseNewlines(Trim(StripComments(s))))


\* ------------------------------------------------------------------------
\* Parsing helpers
\* ------------------------------------------------------------------------

\* afterMarker.search(/\n###\s/): first position of a newline followed by
\* "###" and a whitespace character, -1 when there is none
HeadingMark == <<"\n", "#", "#", "#">>

SearchHeading(s) ==
    LET occ == {i \in Occurrences(s, HeadingMark) :
                    i + Len(HeadingMark) < Len(s)
                    /\ IsSpace(s[i + Len(HeadingMark) + 1])}
    IN  IF occ = {} THEN -1 ELSE Min(occ)

\* a marker that leaves out the opening "**" of the label
FieldMarker_Loose(label) == label \o <<":", "*", "*">>

\* the marker `**${label}:**`
FieldMarker(label) == <<"*", "*">> \o label \o <<":", "*", "*">>

\* the delimiters of the loop of extractField, and the "\n---" rule
FieldDelimiters == {<<"\n", "*", "*">>, <<"\n", "-", " ", "*", "*">>}
RuleMark == <<"\n", "-", "-", "-">>

\* FieldEnd without the bulleted style of field marker
FieldEnd_ParagraphOnly(afterMarker) ==
    LET cand == {IndexOf(afterMarker, <<"\n", "*", "*">>),
                 SearchHeading(afterMarker), IndexOf(afterMarker, RuleMark)}
    IN  Min({Len(afterMarker)} \cup (cand \ {-1}))

\* the end of a field inside afterMarker: the earliest boundary, or its length
FieldEnd(afterMarker) ==
    LET cand == {IndexOf(afterMarker, d) : d \in FieldDelimiters}
                \cup {SearchHeading(afterMarker), IndexOf(afterMarker, RuleMark)}
    IN  Min({Len(afterMarker)} \cup (cand \ {-1}))

extractField(text, label) ==
    LET marker == FieldMarker(label)
        idx == IndexOf(text, marker)
    IN  IF idx = -1 THEN <<>>
        ELSE LET afterMarker == SliceFrom(text, idx + Len(marker))
             IN  cleanValue(Slice(afterMarker, 0, FieldEnd(afterMarker)))

\* the two bullet glyphs, each followed by a space
IsBullet(trimmed) ==
    StartsWith(trimmed, <<"-", " ">>) \/ StartsWith(trimmed, <<"*", " ">>)

\* a line at which the loop of extractBulletList may stop
IsListStop(trimmed) ==
    \/ trimmed = <<>>
    \/ StartsWith(trimmed, <<"#">>)
    \/ StartsWith(trimmed, <<"-", "-", "-">>)

\* an item put in front of the items collected so far
AddItem_Front(items, val) == <<val>> \o items

\* items.push(val)
AddItem(items, val) == Append(items, val)

\* the loop of extractBulletList over the remaining lines
RECURSIVE BulletLoop(_, _)
BulletLoop(lines, items) ==
    IF lines = <<>> THEN items
    ELSE LET trimmed == Trim(Head(lines))
         IN  IF IsBullet(trimmed)
             THEN LET val == cleanValue(SliceFrom(trimmed, 2))
                  IN  BulletLoop(Tail(lines),
                        IF val # <<>> /\ ~StartsWith(val, CommentOpen)
                        THEN AddItem(items, val) ELSE items)
             ELSE IF IsListStop(trimmed) /\ Len(items) > 0 THEN items
             ELSE BulletLoop(Tail(lines), items)

extractBulletList(text, afterMarker) ==
    LET idx == IndexOf(text, afterMarker)
    IN  IF idx = -1 THEN <<>>
        ELSE BulletLoop(Split(SliceFrom(text, idx + Len(afterMarker)), NL), <<>>)

\* line.split("|").slice(1, -1).map(cleanValue)
parseTableRow(line) ==
    LET parts == Split(line, "|")
    IN  [i \in 1..(IF Len(parts) >= 2 THEN Len(parts) - 2 ELSE 0) |->
            cleanValue(parts[i + 1])]

\* String.toLowerCase on the letters A-Z
UpperCase == <<"A","B","C","D","E","F","G","H","I","J","K","L","M","N","O","P","Q","R","S","T","U","V","W","X","Y","Z">>
LowerCase == <<"a","b","c","d","e","f","g","h","i","j","k","l","m","n","o","p","q","r","s","t","u","v","w","x","y","z">>

ToLower(s) ==
    [i \in 1..Len(s) |->
        IF \E k \in 1..Len(UpperCase) : UpperCase[k] = s[i]
        THEN LowerCase[CHOOSE k \in 1..Len(UpperCase) : UpperCase[k] = s[i]]
        ELSE s[i]]

\* s.replace(/\s+/g, "_"): each run of whitespace becomes one underscore
UnderscoreSpaces(s) ==
    LET keep == Ascending({i \in 1..Len(s) :
                              ~IsSpace(s[i]) \/ i = 1 \/ ~IsSpace(s[i - 1])})
    IN  [k \in 1..Len(keep) |-> IF IsSpace(s[keep[k]]) THEN "_" ELSE s[keep[k]]]

\* the key of a header cell: h.toLowerCase().replace(/\s+/g, "_")
HeaderKey(h) == UnderscoreSpaces(ToLower(h))

\* cells.every((c) => !c || c.startsWith("<!--"))
IsBlankRow(cells) ==
    \A i \in 1..Len(cells) : cells[i] = <<>> \/ StartsWith(cells[i], CommentOpen)

\* the row object built by headers.forEach: a later header of the same key
\* overwrites an earlier one; a missing cell is ""
TableRow(headers, cells) ==
    [k \in {HeaderKey(headers[i]) : i \in 1..Len(headers)} |->
        LET last == CHOOSE i \in 1..Len(headers) :
                        /\ HeaderKey(headers[i]) = k
                        /\ \A j \in 1..Len(headers) : HeaderKey(headers[j]) = k => j <= i
        IN  IF last <= Len(cells) THEN cells[last] ELSE <<>>]

\* the data loop of extractTable from line i (1-based) on
RECURSIVE TableLoop(_, _, _, _)
TableLoop(lines, i, headers, rows) ==
    IF i > Len(lines) \/ ~StartsWith(lines[i], <<"|">>) THEN rows
    ELSE LET cells == parseTableRow(lines[i])
         IN  TableLoop(lines, i + 1, headers,
                IF IsBlankRow(cells) THEN rows
                ELSE Append(rows, TableRow(headers, cells)))

\* the data rows taken from the line right after the header
SeparatorSkip_None == 2 - 1

\* the offset from the header line to the first data line
SeparatorSkip == 2

extractTable(text, afterMarker) ==
    LET idx == IndexOf(text, afterMarker)
    IN  IF idx = -1 THEN <<>>
        ELSE LET raw == Split(SliceFrom(text, idx + Len(afterMarker)), NL)
                 lines == [i \in 1..Len(raw) |-> Trim(raw[i])]
                 found == {i \in 1..Len(lines) : StartsWith(lines[i], <<"|">>)}
             IN  IF found = {} THEN <<>>
                 ELSE LET headerIdx == Min(found)
                          headers == parseTableRow(lines[headerIdx])
                      IN  IF Len(headers) = 0 THEN <<>>
                          ELSE TableLoop(lines, headerIdx + SeparatorSkip, headers, <<>>)

\* the marker `## ${heading}` and "\n## "
SectionMarker(heading) == <<"#", "#", " ">> \o heading
NextSectionMark == <<"\n", "#", "#", " ">>

extractSection(text, heading) ==
    LET marker == SectionMarker(heading)
        idx == IndexOf(text, <<NL>> \o marker)
        startIdx == IF idx # -1 THEN idx + 1
                    ELSE IF StartsWith(text, marker) THEN 0 ELSE -1
    IN  IF startIdx = -1 THEN <<>>
        ELSE LET afterHeading == SliceFrom(text, startIdx + Len(marker))
                 newlinePos == IndexOf(afterHeading, <<NL>>)
             IN  IF newlinePos = -1 THEN <<>>
                 ELSE LET sectionContent == SliceFrom(afterHeading, newlinePos + 1)
                          nextSection == IndexOf(sectionContent, NextSectionMark)
                      IN  IF nextSection = -1 THEN Trim(sectionContent)
                          ELSE Trim(Slice(sectionContent, 0, nextSection))

\* the pieces of s around the matches of a regular expression, as
\* String.split gives them; matches is the sequence of the matches in order,
\* each <<start, end>> (0-based, end exclusive)
RECURSIVE SplitAround(_, _, _)
SplitAround(s, matches, from) ==
    IF matches = <<>> THEN <<SliceFrom(s, from)>>
    ELSE <<Slice(s, from, Head(matches)[1])>>
         \o SplitAround(s, Tail(matches), Head(matches)[2])

\* ^ under the m flag: the start of the text or just after a newline
AtLineStart(s, i) == i = 0 \/ s[i] = NL

\* the position of the end of the line that holds position i
LineEnd(s, i) ==
    LET nl == IndexOf(SliceFrom(s, i), <<NL>>)
    IN  IF nl = -1 THEN Len(s) ELSE i + nl

\* section.split(/^- \*\*Title:\*\*/m)
OfferTitleMark == <<"-"," ","*","*","T","i","t","l","e",":","*","*">>

SplitOffers(section) ==
    LET starts == {i \in Occurrences(section, OfferTitleMark) : AtLineStart(section, i)}
        order == Ascending(starts)
    IN  SplitAround(section,
            [k \in 1..Len(order) |-> <<order[k], order[k] + Len(OfferTitleMark)>>], 0)

\* block.match(/\*\*Description:\*\*\s*(.+)/): the captured group of the
\* leftmost match, or NoMatch.  After the marker at q, \s* takes the longest
\* run of whitespace and gives characters back until (.+) finds a character
\* that is no newline; the group then runs to the end of that line.
DescriptionMark == <<"*","*","D","e","s","c","r","i","p","t","i","o","n",":","*","*">>
NoMatch == [matched |-> FALSE, group |-> <<>>]

SpaceRun(s, q) ==
    LET stop == {k \in q..Len(s) : k = Len(s) \/ ~IsSpace(s[k + 1])}
    IN  Min(stop) - q

DescriptionAt(s, q) ==
    LET w == SpaceRun(s, q)
        starts == {k \in q..(q + w) : k < Len(s) /\ s[k + 1] # NL}
    IN  IF starts = {} THEN NoMatch
        ELSE LET k == CHOOSE x \in starts : \A y \in starts : y <= x
             IN  [matched |-> TRUE, group |-> Slice(s, k, LineEnd(s, k))]

MatchDescription(block) ==
    LET hits == {i \in Occurrences(block, DescriptionMark) :
                    DescriptionAt(block, i + Len(DescriptionMark)).matched}
    IN  IF hits = {} THEN NoMatch
        ELSE DescriptionAt(block, Min(hits) + Len(DescriptionMark))

\* the loop of extractWhatIOffer over the blocks
RECURSIVE OfferLoop(_, _)
OfferLoop(blocks, items) ==
    IF blocks = <<>> THEN items
    ELSE LET block == Head(blocks)
             title == cleanValue(Split(block, NL)[1])
             descMatch == MatchDescription(block)
             description == IF descMatch.matched THEN cleanValue(descMatch.group)
                            ELSE <<>>
         IN  OfferLoop(Tail(blocks),
                IF title # <<>> /\ ~StartsWith(title, CommentOpen)
                THEN Append(items, [title |-> title, description |-> description])
                ELSE items)

extractWhatIOffer(section) == OfferLoop(Tail(SplitOffers(section)), <<>>)

\* section.split(/^### Role \d+[^\n]*/m): a match starts a line with
\* "### Role " and a digit and runs to the end of that line
RoleMark == <<"#","#","#"," ","R","o","l","e"," ">>
Digits == {"0", "1", "2", "3", "4", "5", "6", "7", "8", "9"}

SplitRoles(section) ==
    LET starts == {i \in Occurrences(section, RoleMark) :
                      /\ AtLineStart(section, i)
                      /\ i + Len(RoleMark) < Len(section)
                      /\ section[i + Len(RoleMark) + 1] \in Digits}
        order == Ascending(starts)
    IN  SplitAround(section,
            [k \in 1..Len(order) |-> <<order[k], LineEnd(section, order[k])>>], 0)

KeyContributions == <<"*","*","K","e","y"," ","C","o","n","t","r","i","b","u","t","i","o","n","s",":","*","*">>

\* a role that is pushed only when it has a title
KeepRole_TitleOnly(title, company) == title # <<>>

\* if (title || company)
KeepRole(title, company) == title # <<>> \/ company # <<>>

\* the loop of extractRoles over the blocks
RECURSIVE RoleLoop(_, _)
RoleLoop(blocks, roles) ==
    IF blocks = <<>> THEN roles
    ELSE LET block == Head(blocks)
             title == extractField(block, <<"T","i","t","l","e">>)
             company == extractField(block, <<"C","o","m","p","a","n","y">>)
             dates == extractField(block, <<"D","a","t","e","s">>)
             location == extractField(block, <<"L","o","c","a","t","i","o","n">>)
             description == extractField(block, <<"D","e","s","c","r","i","p","t","i","o","n">>)
             contributions == extractBulletList(block, KeyContributions)
         IN  RoleLoop(Tail(blocks),
                IF KeepRole(title, company)
                THEN Append(roles,
                        [title |-> title, company |-> company, dates |-> dates,
                         location |-> location, description |-> description,
                         contributions |-> SelectSeq(contributions, LAMBDA c : c # <<>>)])
                ELSE roles)

extractRoles(section) == RoleLoop(Tail(SplitRoles(section)), <<>>)

\* ------------------------------------------------------------------------
\* JavaScript values of the records: strings, arrays, objects, undefined
\* ------------------------------------------------------------------------

Str(s) == [type |-> "string", value |-> s]
Arr(items) == [type |-> "array", value |-> items]
Obj(fields) == [type |-> "object", value |-> fields]
Undefined == [type |-> "undefined", value |-> <<>>]

\* a string[] of the record types
StrArr(xs) == Arr([i \in 1..Len(xs) |-> Str(xs[i])])

\* r.key of a table row: undefined when the table has no such column
Prop(row, key) == IF key \in DOMAIN row THEN Str(row[key]) ELSE Undefined

\* the test of .filter((r) => r.key): the property is a non-empty string
Truthy(row, key) == key \in DOMAIN row /\ row[key] # <<>>

\* ------------------------------------------------------------------------
\* Main parser
\* ------------------------------------------------------------------------

\* the keys of ProfileData, in the order of the object literal
Endpoints ==
    <<"about", "narrative", "thesis", "accomplishments", "track-record",
      "experience", "seeking", "cultural-fit", "skills">>

EndpointSet == {Endpoints[i] : i \in 1..Len(Endpoints)}

\* the heading parseTemplate passes to extractSection for each endpoint
SectionHeading ==
    [about |-> <<"A","b","o","u","t">>, narrative |-> <<"N","a","r","r","a","t","i","v","e">>, thesis |-> <<"T","h","e","s","i","s">>,
     accomplishments |-> <<"A","c","c","o","m","p","l","i","s","h","m","e","n","t","s">>, experience |-> <<"E","x","p","e","r","i","e","n","c","e">>,
     seeking |-> <<"S","e","e","k","i","n","g">>, skills |-> <<"S","k","i","l","l","s">>]
    @@ ("track-record" :> <<"T","r","a","c","k"," ","R","e","c","o","r","d">>) @@ ("cultural-fit" :> <<"C","u","l","t","u","r","a","l"," ","F","i","t">>)

OfferArr(items) ==
    Arr([i \in 1..Len(items) |->
            Obj([title |-> Str(items[i].title),
                 description |-> Str(items[i].description)])])

parseAbout(aboutSection, whatIOffer) ==
    Obj([name |-> Str(extractField(aboutSection, <<"N","a","m","e">>)),
         preferred_name |-> Str(extractField(aboutSection, <<"P","r","e","f","e","r","r","e","d"," ","N","a","m","e">>)),
         title |-> Str(extractField(aboutSection, <<"T","i","t","l","e">>)),
         location |-> Str(extractField(aboutSection, <<"L","o","c","a","t","i","o","n">>)),
         core_thesis |-> Str(extractField(aboutSection, <<"C","o","r","e"," ","T","h","e","s","i","s">>)),
         the_moment |-> Str(extractField(aboutSection, <<"T","h","e"," ","M","o","m","e","n","t">>)),
         what_i_offer |-> OfferArr(whatIOffer)])

parseNarrative(narrativeSection) ==
    Obj([professional_narrative |->
            Str(extractField(narrativeSection, <<"P","r","o","f","e","s","s","i","o","n","a","l"," ","N","a","r","r","a","t","i","v","e">>)),
         philosophy |-> Str(extractField(narrativeSection, <<"P","h","i","l","o","s","o","p","h","y">>))])

parseThesis(thesisSection) ==
    Obj([core_thesis |-> Str(extractField(thesisSection, <<"C","o","r","e"," ","T","h","e","s","i","s">>)),
         the_moment |-> Str(extractField(thesisSection, <<"T","h","e"," ","M","o","m","e","n","t">>)),
         implications |-> StrArr(extractBulletList(thesisSection, <<"#","#","#"," ","I","m","p","l","i","c","a","t","i","o","n","s">>))])

\* financialImpactTable.filter((r) => r.accomplishment).map(...)
financialImpact(accomplishmentsSection) ==
    LET table == extractTable(accomplishmentsSection, <<"#","#","#"," ","F","i","n","a","n","c","i","a","l"," ","I","m","p","a","c","t">>)
        kept == SelectSeq(table, LAMBDA r : Truthy(r, <<"a","c","c","o","m","p","l","i","s","h","m","e","n","t">>))
    IN  Arr([i \in 1..Len(kept) |->
                Obj([accomplishment |-> Prop(kept[i], <<"a","c","c","o","m","p","l","i","s","h","m","e","n","t">>),
                     company |-> Prop(kept[i], <<"c","o","m","p","a","n","y">>),
                     value |-> Prop(kept[i], <<"v","a","l","u","e">>)])])

parseAccomplishments(accomplishmentsSection) ==
    Obj([financial_impact |-> financialImpact(accomplishmentsSection),
         operational_scale |->
            StrArr(extractBulletList(accomplishmentsSection, <<"#","#","#"," ","O","p","e","r","a","t","i","o","n","a","l"," ","S","c","a","l","e">>)),
         recognition_innovation |->
            StrArr(extractBulletList(accomplishmentsSection,
                                     <<"#","#","#"," ","R","e","c","o","g","n","i","t","i","o","n"," ","&"," ","I","n","n","o","v","a","t","i","o","n">>))])

\* headlineTable.filter((r) => r.stat).map(...)
headlineStats(trackRecordSection) ==
    LET table == extractTable(trackRecordSection, <<"#","#","#"," ","H","e","a","d","l","i","n","e"," ","S","t","a","t","s">>)
        kept == SelectSeq(table, LAMBDA r : Truthy(r, <<"s","t","a","t">>))
    IN  Arr([i \in 1..Len(kept) |->
                Obj([stat |-> Prop(kept[i], <<"s","t","a","t">>),
                     context |-> Prop(kept[i], <<"c","o","n","t","e","x","t">>)])])

parseTrackRecord(trackRecordSection, accomplishments) ==
    Obj([headline_stats |-> headlineStats(trackRecordSection),
         financial_impact |-> accomplishments.value.financial_impact])

RoleArr(roles) ==
    Arr([i \in 1..Len(roles) |->
            Obj([title |-> Str(roles[i].title),
                 company |-> Str(roles[i].company),
                 dates |-> Str(roles[i].dates),
                 location |-> Str(roles[i].location),
                 description |-> Str(roles[i].description),
                 contributions |-> StrArr(roles[i].contributions)])])

parseExperience(experienceSection) ==
    Obj([experience |-> RoleArr(extractRoles(experienceSection))])

\* orgTypesTable.filter((r) => r.organization_type).map(...)
organizationTypes(seekingSection) ==
    LET table == extractTable(seekingSection, <<"#","#","#"," ","O","r","g","a","n","i","z","a","t","i","o","n"," ","T","y","p","e","s">>)
        kept == SelectSeq(table, LAMBDA r : Truthy(r, <<"o","r","g","a","n","i","z","a","t","i","o","n","_","t","y","p","e">>))
    IN  Arr([i \in 1..Len(kept) |->
                Obj([type |-> Prop(kept[i], <<"o","r","g","a","n","i","z","a","t","i","o","n","_","t","y","p","e">>),
                     what_i_bring |-> Prop(kept[i], <<"w","h","a","t","_","i","_","b","r","i","n","g">>)])])

parseSeeking(seekingSection) ==
    Obj([target_roles |-> StrArr(extractBulletList(seekingSection, <<"*","*","T","a","r","g","e","t"," ","R","o","l","e","s",":","*","*">>)),
         reporting_relationship |->
            Str(extractField(seekingSection, <<"R","e","p","o","r","t","i","n","g"," ","R","e","l","a","t","i","o","n","s","h","i","p">>)),
         organization_types |-> organizationTypes(seekingSection),
         industry |-> Str(extractField(seekingSection, <<"I","n","d","u","s","t","r","y">>))])

parseCulturalFit(culturalFitSection) ==
    Obj([thrive_in |-> StrArr(extractBulletList(culturalFitSection, <<"#","#","#"," ","I"," ","T","h","r","i","v","e"," ","I","n">>)),
         not_right_for |->
            StrArr(extractBulletList(culturalFitSection, <<"#","#","#"," ","N","o","t"," ","R","i","g","h","t"," ","F","o","r">>))])

parseSkills(skillsSection, whatIOffer) ==
    Obj([what_i_offer |-> OfferArr(whatIOffer),
         expertise |->
            Obj([methodologies |->
                    StrArr(extractBulletList(skillsSection, <<"#","#","#"," ","M","e","t","h","o","d","o","l","o","g","i","e","s">>)),
                 technical |-> StrArr(extractBulletList(skillsSection, <<"#","#","#"," ","T","e","c","h","n","i","c","a","l">>)),
                 domain |->
                    StrArr(extractBulletList(skillsSection, <<"#","#","#"," ","D","o","m","a","i","n"," ","E","x","p","e","r","t","i","s","e">>))])])

\* parseTemplate on the text read from the template file
parseTemplate(raw) ==
    LET section == [e \in EndpointSet |-> extractSection(raw, SectionHeading[e])]
        whatIOffer == extractWhatIOffer(section["about"])
        accomplishments == parseAccomplishments(section["accomplishments"])
    IN  ("about" :> parseAbout(section["about"], whatIOffer))
        @@ ("narrative" :> parseNarrative(section["narrative"]))
        @@ ("thesis" :> parseThesis(section["thesis"]))
        @@ ("accomplishments" :> accomplishments)
        @@ ("track-record" :> parseTrackRecord(section["track-record"], accomplishments))
        @@ ("experience" :> parseExperience(section["experience"]))
        @@ ("seeking" :> parseSeeking(section["seeking"]))
        @@ ("cultural-fit" :> parseCulturalFit(section["cultural-fit"]))
        @@ ("skills" :> parseSkills(section["skills"], whatIOffer))

\* ------------------------------------------------------------------------
\* File output
\* ------------------------------------------------------------------------

RECURSIVE isEmptyData(_)
isEmptyData(d) ==
    CASE d.type = "undefined" -> TRUE
      [] d.type = "string" -> Trim(d.value) = <<>>
      [] d.type = "array" -> Len(d.value) = 0
      [] d.type = "object" -> \A k \in DOMAIN d.value : isEmptyData(d.value[k])
      [] OTHER -> FALSE

endpointDescription(endpoint) ==
    CASE endpoint = "about" -> "Core identity and professional positioning"
      [] endpoint = "narrative" -> "Professional story and philosophy"
      [] endpoint = "thesis" -> "Core professional thesis and implications"
      [] endpoint = "accomplishments" -> "Quantified achievements with evidence"
      [] endpoint = "track-record" -> "Headline stats with context"
      [] endpoint = "experience" -> "Role history with contributions"
      [] endpoint = "seeking" -> "Target roles, org types, what they want"
      [] endpoint = "cultural-fit" -> "Thrive-in environments and not-right-for signals"
      [] endpoint = "skills" -> "Expertise: methodologies, technical, domain"
      [] OTHER -> endpoint

\* the name of the file of an endpoint, `${endpoint}.json`, and of the directory file
EndpointFile(endpoint) == endpoint \o ".json"
RootFile == "root.json"

\* a directory file that lists every endpoint, empty or not
availableEndpoints_All(d) == Endpoints

\* endpoints.filter((e) => !isEmptyData(data[e]))
availableEndpoints(d) == SelectSeq(Endpoints, LAMBDA e : ~isEmptyData(d[e]))

\* the payload of root.json
rootPayload(d) ==
    [name |-> (IF d["about"].value.name.value # <<>> THEN d["about"].value.name.value
               ELSE <<"U","n","k","n","o","w","n">>) \o <<" ","L","i","v","i","n","g"," ","R","e","s","u","m","e"," ","A","P","I">>,
     endpoints |-> [i \in 1..Len(availableEndpoints(d)) |->
                      [route |-> "GET /" \o availableEndpoints(d)[i],
                       description |-> endpointDescription(availableEndpoints(d)[i])]]]

\* writeEndpointFiles(data, outputDir): the directory after the call; files
\* already there and not written again are left as they are
writeEndpointFiles(d, outputDir) ==
    LET written == {Endpoints[i] : i \in {j \in 1..Len(Endpoints) : ~isEmptyData(d[Endpoints[j]])}}
        names == {EndpointFile(e) : e \in written} \cup {RootFile}
    IN  [f \in (DOMAIN outputDir) \cup names |->
            IF f = RootFile THEN rootPayload(d)
            ELSE IF \E e \in written : EndpointFile(e) = f
                 THEN LET e == CHOOSE x \in written : EndpointFile(x) = f
                      IN  [meta |-> [endpoint |-> "/" \o e], data |-> d[e]]
                 ELSE outputDir[f]]

\* ------------------------------------------------------------------------
\* The texts the operations are run on
\* ------------------------------------------------------------------------

\* lines.join("\n")
RECURSIVE Join(_)
Join(lines) ==
    IF lines = <<>> THEN <<>>
    ELSE IF Len(lines) = 1 THEN lines[1]
    ELSE lines[1] \o <<NL>> \o Join(Tail(lines))

\* every sequence of 1..n elements of V
SeqsUpTo(V, n) == UNION {[1..k -> V] : k \in 1..n}

\* values of the variables an operation does not use
NoData == [e \in {} |-> e]
NoPrev == [ran |-> FALSE, data |-> NoData, edited |-> "none"]
EmptyDir == [f \in {} |-> f]

\* --- a span holding labeled fields, for extractField
MaxFieldLines == 3

FieldLines ==
    { <<"*","*","T","i","t","l","e",":","*","*"," ","V","P">>, <<>>, <<"*","*","L","o","c","a","t","i","o","n",":","*","*"," ","C","h","i","c","a","g","o">>, <<"-"," ","*","*","C","o","m","p","a","n","y",":","*","*"," ","A","c","m","e">>,
      <<"#","#","#"," ","W","h","a","t"," ","I"," ","O","f","f","e","r">>, <<"-","-","-">>, <<"a","n","d"," ","m","o","r","e">>, <<" "," ","*","*","D","e","s","c","r","i","p","t","i","o","n",":","*","*"," ","O","p","s">>,
      <<"*","*","T","i","t","l","e",":","*","*"," ","<","!","-","-"," ","z"," ","-","-",">">>, <<"*","*","N","a","m","e",":","*","*"," ","A","l"," ","<","!","-","-"," ","z"," ","-","-",">">>,
      <<"*","*","P","r","e","f","e","r","r","e","d"," ","N","a","m","e",":","*","*"," ","A","l">> }

FieldLabels == { <<"T","i","t","l","e">>, <<"N","a","m","e">> }

InitField ==
    /\ pc = "extractField"
    /\ content \in {Join(ls) : ls \in SeqsUpTo(FieldLines, MaxFieldLines)}
    /\ arg \in FieldLabels
    /\ ret = <<>>
    /\ data = NoData /\ prev = NoPrev /\ dir = EmptyDir

CallExtractField ==
    /\ pc = "extractField"
    /\ ret' = extractField(content, arg)
    /\ pc' = "extractField.done"
    /\ UNCHANGED <<content, arg, data, prev, dir>>

SpecField == InitField /\ [][CallExtractField]_vars

\* --- a span holding a bullet list under its introducing marker, for
\* extractBulletList
MaxListLines == 4

ListMarkers == { <<"#","#","#"," ","M","e","t","h","o","d","o","l","o","g","i","e","s">>, <<"*","*","T","a","r","g","e","t"," ","R","o","l","e","s",":","*","*">> }

ListLines ==
    { <<"#","#","#"," ","T","e","c","h","n","i","c","a","l">>, <<"-","-","-">>, <<>>, <<"-"," ","A">>, <<"*"," ","B">>, <<"-"," ","<","!","-","-"," ","z"," ","-","-",">">>,
      <<"t","o"," ","d","o">>, <<" "," ","-"," ","C"," ","<","!","-","-"," ","z"," ","-","-",">">> }

InitList ==
    /\ pc = "extractBulletList"
    /\ arg \in ListMarkers
    /\ content \in {Join(<<arg>> \o ls) : ls \in SeqsUpTo(ListLines, MaxListLines)}
    /\ ret = <<>>
    /\ data = NoData /\ prev = NoPrev /\ dir = EmptyDir

CallExtractBulletList ==
    /\ pc = "extractBulletList"
    /\ ret' = extractBulletList(content, arg)
    /\ pc' = "extractBulletList.done"
    /\ UNCHANGED <<content, arg, data, prev, dir>>

SpecList == InitList /\ [][CallExtractBulletList]_vars

\* --- both helpers
SpecFieldList ==
    (InitField \/ InitList) /\ [][CallExtractField \/ CallExtractBulletList]_vars

\* ------------------------------------------------------------------------
\* Properties of the list extractor
\* ------------------------------------------------------------------------

\* the lines that follow the introducing marker, the first being the rest of
\* the marker's own line
LinesAfter(text, marker) ==
    Split(SliceFrom(text, IndexOf(text, marker) + Len(marker)), NL)

IsHeadingLine(line) == StartsWith(Trim(line), <<"#">>)
IsRuleLine(line) == StartsWith(Trim(line), <<"-", "-", "-">>)
IsBulletLine(line) ==
    StartsWith(Trim(line), <<"-", " ">>) \/ StartsWith(Trim(line), <<"*", " ">>)

\* the text of a span up to, and without, the first heading or rule line that
\* follows the marker
ListScope(text, marker) ==
    LET lines == LinesAfter(text, marker)
        stops == {i \in 1..Len(lines) : IsHeadingLine(lines[i]) \/ IsRuleLine(lines[i])}
    IN  marker \o Join(IF stops = {} THEN lines ELSE SubSeq(lines, 1, Min(stops) - 1))

\* C2 (List scoping): the list returned by extractBulletList holds no bullet
\* that lies after a heading line or a horizontal-rule line following the
\* marker, whatever the number of items collected before that line: the list
\* is the list of the span cut at that line.
C2_ListScoping ==
    pc = "extractBulletList.done" =>
        ret = extractBulletList(ListScope(content, arg), arg)

\* ------------------------------------------------------------------------
\* Properties of the field extractor
\* ------------------------------------------------------------------------

\* a line that ends a field: a field marker in paragraph style or in bulleted
\* style, a "### " subsection heading or a "---" rule, each at the start of
\* the line
IsFieldBoundary(lines, j) ==
    LET l == lines[j]
    IN  \/ StartsWith(l, <<"*", "*">>)
        \/ StartsWith(l, <<"-", " ", "*", "*">>)
        \/ StartsWith(l, <<"-", "-", "-">>)
        \/ /\ StartsWith(l, <<"#", "#", "#">>)
           /\ IF Len(l) > 3 THEN IsSpace(l[4]) ELSE j < Len(lines)

\* the raw text of a field, found line by line: the rest of the first line
\* that holds the marker, and the lines after it up to the first boundary line
HasField(text, label) ==
    \E i \in 1..Len(Split(text, NL)) : Includes(Split(text, NL)[i], FieldMarker(label))

FieldRaw(text, label) ==
    LET lines == Split(text, NL)
        marker == FieldMarker(label)
        first == Min({i \in 1..Len(lines) : Includes(lines[i], marker)})
        rest == SliceFrom(lines[first], IndexOf(lines[first], marker) + Len(marker))
        stops == {j \in (first + 1)..Len(lines) : IsFieldBoundary(lines, j)}
        last == IF stops = {} THEN Len(lines) ELSE Min(stops) - 1
    IN  Join(<<rest>> \o SubSeq(lines, first + 1, last))

\* the example of the field boundary property
TitleThenLocation == Join(<< <<"*","*","T","i","t","l","e",":","*","*"," ","V","P">>, <<>>, <<"*","*","L","o","c","a","t","i","o","n",":","*","*"," ","C","h","i","c","a","g","o">> >>)

HoldsFieldMarker(value) == Includes(value, <<":", "*", "*">>)

HasSpan(s) ==
    \E i \in Occurrences(s, CommentOpen) :
        \E j \in Occurrences(s, CommentClose) : j >= i + Len(CommentOpen)

\* the raw text is made of complete annotation-comment spans and whitespace only
RECURSIVE OnlySpans(_)
OnlySpans(s) ==
    LET t == Trim(s)
        ends == {j \in Occurrences(t, CommentClose) : j >= Len(CommentOpen)}
    IN  \/ t = <<>>
        \/ /\ StartsWith(t, CommentOpen)
           /\ ends # {}
           /\ OnlySpans(SliceFrom(t, Min(ends) + Len(CommentClose)))

\* the raw texts of the list items after the marker: what follows the glyph
ItemTexts(text, marker) ==
    LET lines == LinesAfter(text, marker)
        bullets == SelectSeq(lines, IsBulletLine)
    IN  [i \in 1..Len(bullets) |-> SliceFrom(Trim(bullets[i]), 2)]

\* C5 as stated (Placeholder law): a field whose raw text holds an annotation
\* span is extracted as the empty string, and a list item whose raw text holds
\* one is not collected.
C5_PlaceholderLaw ==
    /\ (pc = "extractField.done" /\ HasField(content, arg)
            /\ HasSpan(FieldRaw(content, arg))) => ret = <<>>
    /\ pc = "extractBulletList.done" =>
          Len(ret) <= Len(SelectSeq(ItemTexts(content, arg), LAMBDA t : ~HasSpan(t)))

\* C5 as amended: a field whose raw text is made of annotation spans and
\* whitespace only is extracted as the empty string, and a list item whose raw
\* text is made of them only is not collected (no collected item is empty).
C5_PlaceholderOnly ==
    /\ (pc = "extractField.done" /\ HasField(content, arg)
            /\ OnlySpans(FieldRaw(content, arg))) => ret = <<>>
    /\ pc = "extractBulletList.done" =>
          /\ Len(ret) <= Len(SelectSeq(ItemTexts(content, arg), LAMBDA t : ~OnlySpans(t)))
          /\ \A i \in 1..Len(ret) : ret[i] # <<>>

C5_Witness ==
    /\ pc = "extractField.done"
    /\ HasField(content, arg)
    /\ HasSpan(FieldRaw(content, arg))
    /\ OnlySpans(FieldRaw(content, arg))
    /\ ret = <<>>

\* ------------------------------------------------------------------------
\* Tables
\* ------------------------------------------------------------------------

\* --- a span holding a table under its introducing marker, for extractTable
MaxTableLines == 4

TableMarker == <<"#","#","#"," ","H","e","a","d","l","i","n","e"," ","S","t","a","t","s">>

StatHeader == <<"|"," ","S","t","a","t"," ","|"," ","C","o","n","t","e","x","t"," ","|">>
OrgHeader == <<"|"," ","O","r","g","a","n","i","z","a","t","i","o","n"," ","T","y","p","e"," ","|"," ","W","h","a","t"," ","I"," ","B","r","i","n","g"," ","|">>
Separator == <<"|","-","-","-","-","-","-","|","-","-","-","-","-","-","-","-","-","|">>
RowSavings == <<"|"," ","$","5","0","M","+"," ","|"," ","S","a","v","i","n","g","s"," ","|">>
RowROI == <<"|"," ","3","0","0","%"," ","|"," ","R","O","I"," ","|">>

TableLines ==
    { StatHeader, OrgHeader, Separator, RowSavings, RowROI,
      <<"|"," ","<","!","-","-"," ","z"," ","-","-",">"," ","|"," ","|">>, <<"|"," ","5","x"," ","|">>, <<>> }

InitTable ==
    /\ pc = "extractTable"
    /\ arg = TableMarker
    /\ content \in {Join(<<arg>> \o ls) : ls \in SeqsUpTo(TableLines, MaxTableLines)}
    /\ ret = <<>>
    /\ data = NoData /\ prev = NoPrev /\ dir = EmptyDir

CallExtractTable ==
    /\ pc = "extractTable"
    /\ ret' = extractTable(content, arg)
    /\ pc' = "extractTable.done"
    /\ UNCHANGED <<content, arg, data, prev, dir>>

SpecTable == InitTable /\ [][CallExtractTable]_vars

\* the cells of a pipe-delimited line: the texts between its pipes, cleaned
Cells(line) ==
    LET parts == Split(line, "|")
    IN  [i \in 1..(Len(parts) - 2) |-> cleanValue(parts[i + 1])]

IsPipeLine(line) == StartsWith(line, <<"|">>)

\* the trimmed lines after the marker, the index of the header line among
\* them (0 when there is none), and the indexes of the data lines: the pipe
\* lines from the second line after the header up to the first other line
TableText(text, marker) ==
    LET lines == LinesAfter(text, marker) IN [i \in 1..Len(lines) |-> Trim(lines[i])]

HeaderIndex(lines) ==
    LET pipes == {i \in 1..Len(lines) : IsPipeLine(lines[i])}
    IN  IF pipes = {} THEN 0 ELSE Min(pipes)

DataIndexes(lines) ==
    LET h == HeaderIndex(lines)
    IN  {i \in (h + 2)..Len(lines) : \A j \in (h + 2)..i : IsPipeLine(lines[j])}

\* a cell that is neither empty nor a placeholder comment
IsFilled(cell) == cell # <<>> /\ ~StartsWith(cell, CommentOpen)

\* the data lines with at least one filled cell, in order
FilledRows(lines) ==
    Ascending({i \in DataIndexes(lines) :
                  \E c \in 1..Len(Cells(lines[i])) : IsFilled(Cells(lines[i])[c])})

\* the i-th cell of a line, the empty string when the line has fewer cells
CellOf(line, i) == IF i <= Len(Cells(line)) THEN Cells(line)[i] ELSE <<>>

\* the header names of a line are pairwise different
DistinctNames(names) ==
    \A i, j \in 1..Len(names) : names[i] = names[j] => i = j

\* the example of the table zip property
StatsExample == Join(<<TableMarker, StatHeader, Separator, RowSavings, RowROI>>)

StatsExampleRows ==
    << ( <<"s","t","a","t">> :> <<"$","5","0","M","+">> ) @@ ( <<"c","o","n","t","e","x","t">> :> <<"S","a","v","i","n","g","s">> ),
       ( <<"s","t","a","t">> :> <<"3","0","0","%">> ) @@ ( <<"c","o","n","t","e","x","t">> :> <<"R","O","I">> ) >>

\* C10 (Table zip): for a table made of a header line (with pairwise
\* different names), the line after it and data lines, extractTable returns
\* one object per data row that has a filled cell, in order, mapping the i-th
\* header name, lower-cased with whitespace runs replaced by "_", to the i-th
\* cleaned cell; the line right after the header never yields a row; the
\* Stat/Context example yields its two row objects.
C10_TableZip ==
    pc = "extractTable.done" =>
        LET lines == TableText(content, arg)
            h == HeaderIndex(lines)
            names == IF h = 0 THEN <<>> ELSE Cells(lines[h])
            rows == FilledRows(lines)
        IN  /\ (h # 0 /\ Len(names) > 0 /\ DistinctNames(names)) =>
                /\ Len(ret) = Len(rows)
                /\ \A k \in 1..Len(rows) :
                      /\ Cardinality(DOMAIN ret[k]) = Len(names)
                      /\ \A i \in 1..Len(names) :
                            /\ HeaderKey(names[i]) \in DOMAIN ret[k]
                            /\ ret[k][HeaderKey(names[i])] = CellOf(lines[rows[k]], i)
            /\ (h # 0 /\ lines[h] = OrgHeader /\ Len(ret) > 0) =>
                DOMAIN ret[1] = { <<"o","r","g","a","n","i","z","a","t","i","o","n","_","t","y","p","e">>, <<"w","h","a","t","_","i","_","b","r","i","n","g">> }
            /\ content = StatsExample => ret = StatsExampleRows

C10_Witness ==
    /\ pc = "extractTable.done"
    /\ content = StatsExample
    /\ ret = StatsExampleRows

\* ------------------------------------------------------------------------
\* The parser run: the CLI entry point on a template
\* ------------------------------------------------------------------------

\* what readFileSync has to read: the text of the template, or Missing
\* when there is no file at the path
Missing == <<"no such file">>

\* the entry point once the template is read: the records are written into
\* the output directory and the files are counted
ParserWrites(parsed) ==
    /\ data' = parsed
    /\ dir' = writeEndpointFiles(parsed, dir)
    /\ prev' = [ran |-> TRUE, data |-> data, edited |-> prev.edited]
    /\ ret' = [files |-> Cardinality(DOMAIN parsed) + 1]
    /\ pc' = "parser.done"

\* the records of a run with, for a section the template leaves empty, the
\* record of the run before
Retained(parsed) ==
    [e \in EndpointSet |->
        IF prev.ran /\ isEmptyData(parsed[e]) THEN data[e] ELSE parsed[e]]

\* a parser that keeps, for a section the template leaves empty, the record
\* of the run before
RunParser_Retain ==
    /\ pc = "parser"
    /\ IF content = Missing
       THEN /\ pc' = "parser.exit1"
            /\ UNCHANGED <<data, dir, prev, ret>>
       ELSE ParserWrites(Retained(parseTemplate(content)))
    /\ UNCHANGED <<content, arg>>

\* the CLI entry point: exit with status 1 when the template does not
\* exist; otherwise parseTemplate, then writeEndpointFiles into the output
\* directory, then the report "Done! N files generated." with
\* N = Object.keys(data).length + 1
RunParser ==
    /\ pc = "parser"
    /\ IF content = Missing
       THEN /\ pc' = "parser.exit1"
            /\ UNCHANGED <<data, dir, prev, ret>>
       ELSE ParserWrites(parseTemplate(content))
    /\ UNCHANGED <<content, arg>>

\* the endpoint whose section holds line i of the text: the endpoint of the
\* nearest "## " heading line above it ("none" when there is no such line or
\* the heading is none of the nine)
IsTopHeading(line) == StartsWith(line, <<"#", "#", " ">>)

SectionOfLine(lines, i) ==
    LET above == {j \in 1..(i - 1) : IsTopHeading(lines[j])}
    IN  IF above = {} THEN "none"
        ELSE LET h == CHOOSE j \in above : \A k \in above : k <= j
                 named == {e \in EndpointSet : lines[h] = SectionMarker(SectionHeading[e])}
             IN  IF named = {} THEN "none" ELSE CHOOSE e \in named : TRUE

\* the lines a user writes in the body of a section
BodyLines ==
    { <<"*","*","N","a","m","e",":","*","*"," ","A","l">>, <<"-"," ","*","*","T","i","t","l","e",":","*","*"," ","O","p","s">>, <<"*","*","P","h","i","l","o","s","o","p","h","y",":","*","*"," ","L","e","a","n">>,
      <<"#","#","#"," ","T","e","c","h","n","i","c","a","l">>, <<"-"," ","G","o">>, <<>> }

HeadingLines == { <<"#","#"," ","A","b","o","u","t">>, <<"#","#"," ","N","a","r","r","a","t","i","v","e">>, <<"#","#"," ","S","k","i","l","l","s">> }

\* the user edits TEMPLATE.md between two runs: one line in the body of a
\* named section is replaced by another body line; no heading line changes
EditBody ==
    /\ pc = "parser.done"
    /\ prev.edited = "none"
    /\ \E i \in 1..Len(Split(content, NL)), l \in BodyLines :
          LET lines == Split(content, NL)
          IN  /\ ~IsTopHeading(lines[i])
              /\ l # lines[i]
              /\ SectionOfLine(lines, i) # "none"
              /\ content' = Join([lines EXCEPT ![i] = l])
              /\ prev' = [prev EXCEPT !.edited = SectionOfLine(lines, i)]
    /\ pc' = "parser"
    /\ UNCHANGED <<arg, ret, data, dir>>

\* --- templates made of section headings and body lines
MaxDocLines == 4
MaxEditLines == 3

Docs(n) == {Join(ls) : ls \in SeqsUpTo(HeadingLines \cup BodyLines, n)}

InitDoc ==
    /\ pc = "parser"
    /\ content \in Docs(MaxDocLines)
    /\ arg = <<>> /\ ret = <<>>
    /\ data = NoData /\ prev = NoPrev /\ dir = EmptyDir

SpecDoc == InitDoc /\ [][RunParser]_vars

InitEdit ==
    /\ pc = "parser"
    /\ content \in Docs(MaxEditLines)
    /\ arg = <<>> /\ ret = <<>>
    /\ data = NoData /\ prev = NoPrev /\ dir = EmptyDir

SpecEdit == InitEdit /\ [][RunParser \/ EditBody]_vars

\* --- the section locator on the same templates
SectionNames == { <<"A","b","o","u","t">>, <<"N","a","r","r","a","t","i","v","e">>, <<"S","k","i","l","l","s">>, <<"T","h","e","s","i","s">> }

InitSection ==
    /\ pc = "extractSection"
    /\ content \in Docs(MaxDocLines)
    /\ arg \in SectionNames
    /\ ret = <<>>
    /\ data = NoData /\ prev = NoPrev /\ dir = EmptyDir

CallExtractSection ==
    /\ pc = "extractSection"
    /\ ret' = extractSection(content, arg)
    /\ pc' = "extractSection.done"
    /\ UNCHANGED <<content, arg, data, prev, dir>>

SpecSection == InitSection /\ [][CallExtractSection]_vars

\* ------------------------------------------------------------------------
\* Sections: what the locator returns and what a run emits
\* ------------------------------------------------------------------------

\* the body of the section named by a heading, read line by line: the lines
\* after the first line that is the heading, up to the next line that starts
\* with "## " or to the end of the text; no lines when the heading is absent
HeadingAt(lines, name) == {i \in 1..Len(lines) : lines[i] = SectionMarker(name)}

SectionBody(text, name) ==
    LET lines == Split(text, NL)
        at == HeadingAt(lines, name)
    IN  IF at = {} THEN <<>>
        ELSE LET h == Min(at)
                 later == {j \in (h + 1)..Len(lines) : IsTopHeading(lines[j])}
                 stop == IF later = {} THEN Len(lines) + 1 ELSE Min(later)
             IN  [k \in 1..(stop - h - 1) |-> lines[h + k]]

\* C3 (Section Locator): extractSection returns the text between the
\* section's heading line and the next "## " heading line or the end of the
\* document (surrounding whitespace aside), and the empty string when the
\* heading is absent; it never returns the heading or body of another section.
C3_SectionLocator ==
    pc = "extractSection.done" => ret = Trim(Join(SectionBody(content, arg)))

\* C1 (Section independence): when a second run follows an edit inside the
\* body of one named section, with every heading line unchanged, the records
\* of all the other endpoints are the records of the run before.
C1_SectionIndependence ==
    (pc = "parser.done" /\ prev.ran /\ prev.edited # "none") =>
        \A e \in EndpointSet \ {prev.edited} : data[e] = prev.data[e]

\* the endpoints the directory file lists, and the endpoints with a file
Listed(d) ==
    {e \in EndpointSet :
        \E i \in 1..Len(d[RootFile].endpoints) :
            d[RootFile].endpoints[i].route = "GET /" \o e}

Written(d) == {e \in EndpointSet : EndpointFile(e) \in DOMAIN d}

\* C4 (blank or missing section is skipped): after a run, an endpoint whose
\* heading is absent from the document, or whose section body is blank, has
\* no <endpoint>.json and is not listed by the directory file.
C4_BlankSkipped ==
    pc = "parser.done" =>
        \A e \in EndpointSet :
            Trim(Join(SectionBody(content, SectionHeading[e]))) = <<>> =>
                e \notin Written(dir) /\ e \notin Listed(dir)

\* ------------------------------------------------------------------------
\* Annotation comments in a section
\* ------------------------------------------------------------------------

\* templates with a Thesis section whose lines carry comments; the text
\* written inside a comment is "z", which no text outside a comment holds
MaxCommentLines == 4

ThesisHeading == <<"#","#"," ","T","h","e","s","i","s">>

CommentLines ==
    { <<"*","*","C","o","r","e"," ","T","h","e","s","i","s",":","*","*"," ","A","l"," ","<","!","-","-"," ","z"," ","-","-",">">>, <<"*","*","T","h","e"," ","M","o","m","e","n","t",":","*","*"," ","<","!","-","-">>, <<"*","*","z","*","*"," ","-","-",">">>,
      <<"#","#","#"," ","I","m","p","l","i","c","a","t","i","o","n","s">>, <<"<","!","-","-">>, <<"-"," ","z">>, <<"-","-",">">>, <<"-"," ","G","o"," ","<","!","-","-"," ","z"," ","-","-",">">> }

InitComments ==
    /\ pc = "parser"
    /\ content \in {Join(<<ThesisHeading>> \o ls) : ls \in SeqsUpTo(CommentLines, MaxCommentLines)}
    /\ arg = <<>> /\ ret = <<>>
    /\ data = NoData /\ prev = NoPrev /\ dir = EmptyDir

SpecComments == InitComments /\ [][RunParser]_vars

\* every string held by a value: field values, list items, cells of rows
RECURSIVE Strings(_)
Strings(d) ==
    CASE d.type = "string" -> {d.value}
      [] d.type = "array" -> UNION {Strings(d.value[i]) : i \in 1..Len(d.value)}
      [] d.type = "object" -> UNION {Strings(d.value[k]) : k \in DOMAIN d.value}
      [] OTHER -> {}

\* every comment of the text is closed and all hidden text lies in comments
Annotated(text) ==
    /\ Includes(text, CommentOpen)
    /\ ~Includes(StripComments(text), CommentOpen)
    /\ ~Includes(StripComments(text), <<"z">>)

\* C6 (Annotation text is never content): in a document whose comments are
\* all closed, no string of a record returned by parseTemplate contains the
\* comment opener or text that lay inside a comment, multi-line comments
\* included.
C6_AnnotationNeverContent ==
    (pc = "parser.done" /\ Annotated(content)) =>
        \A e \in EndpointSet : \A s \in Strings(data[e]) :
            ~Includes(s, CommentOpen) /\ ~Includes(s, <<"z">>)

\* ------------------------------------------------------------------------
\* Tables in a run
\* ------------------------------------------------------------------------

TrackRecordHeading == <<"#","#"," ","T","r","a","c","k"," ","R","e","c","o","r","d">>

StatLines ==
    { StatHeader, Separator, RowSavings, RowROI,
      <<"|"," ","|"," ","L","e","a","n"," ","|">>, <<"|"," ","<","!","-","-"," ","z"," ","-","-",">"," ","|"," ","|">>, <<>> }

InitTables ==
    /\ pc = "parser"
    /\ content \in {Join(<<TrackRecordHeading, TableMarker>> \o ls) :
                      ls \in SeqsUpTo(StatLines, MaxTableLines)}
    /\ arg = <<>> /\ ret = <<>>
    /\ data = NoData /\ prev = NoPrev /\ dir = EmptyDir

SpecTables == InitTables /\ [][RunParser]_vars

\* C9 (rows are dropped only when entirely empty): after a run on a Track
\* Record section with a Stat/Context table, headline_stats holds one entry
\* per data row that has a filled cell, in order, with the row's two cells.
C9_RowsKept ==
    pc = "parser.done" =>
        LET lines == TableText(content, TableMarker)
            h == HeaderIndex(lines)
            rows == FilledRows(lines)
            stats == data["track-record"].value.headline_stats.value
        IN  (h # 0 /\ lines[h] = StatHeader) =>
                /\ Len(stats) = Len(rows)
                /\ \A k \in 1..Len(rows) :
                      /\ stats[k].value.stat = Str(CellOf(lines[rows[k]], 1))
                      /\ stats[k].value.context = Str(CellOf(lines[rows[k]], 2))

\* ------------------------------------------------------------------------
\* Writing the endpoint files
\* ------------------------------------------------------------------------

\* the records of a template with nothing filled in
EmptyProfile == parseTemplate(<<>>)

\* the element an array field holds when it is filled in
SampleElement(key) ==
    CASE key = "what_i_offer" ->
            Obj([title |-> Str(<<"O","p","s">>), description |-> Str(<<>>)])
      [] key = "financial_impact" ->
            Obj([accomplishment |-> Str(<<"S","a","v","i","n","g","s">>), company |-> Str(<<>>),
                 value |-> Str(<<>>)])
      [] key = "headline_stats" ->
            Obj([stat |-> Str(<<"5","x">>), context |-> Str(<<>>)])
      [] key = "organization_types" ->
            Obj([type |-> Str(<<"L","e","a","n">>), what_i_bring |-> Str(<<>>)])
      [] key = "experience" ->
            Obj([title |-> Str(<<"V","P">>), company |-> Str(<<>>), dates |-> Str(<<>>),
                 location |-> Str(<<>>), description |-> Str(<<>>),
                 contributions |-> Arr(<<>>)])
      [] OTHER -> Str(<<"G","o">>)

\* a record with every string field set to s / every array field given one
\* element
RECURSIVE WithStrings(_, _)
WithStrings(d, s) ==
    CASE d.type = "string" -> Str(s)
      [] d.type = "object" -> Obj([k \in DOMAIN d.value |-> WithStrings(d.value[k], s)])
      [] OTHER -> d

RECURSIVE WithItems(_)
WithItems(d) ==
    IF d.type = "object"
    THEN Obj([k \in DOMAIN d.value |->
                IF d.value[k].type = "array" THEN Arr(<<SampleElement(k)>>)
                ELSE WithItems(d.value[k])])
    ELSE d

FillKinds == {"text", "items"}

Filled(e, kind) ==
    IF kind = "text" THEN WithStrings(EmptyProfile[e], <<"A","l">>)
    ELSE WithItems(EmptyProfile[e])

\* the profiles handed to writeEndpointFiles: some endpoints filled in one
\* way, the others left empty or holding blank strings only
InitWrite ==
    /\ pc = "writeEndpointFiles"
    /\ \E filled \in SUBSET EndpointSet, kind \in FillKinds, blank \in BOOLEAN :
          data = [e \in EndpointSet |->
                    IF e \in filled THEN Filled(e, kind)
                    ELSE IF blank THEN WithStrings(EmptyProfile[e], <<" ">>)
                    ELSE EmptyProfile[e]]
    /\ content = <<>> /\ arg = <<>> /\ ret = <<>>
    /\ prev = NoPrev /\ dir = EmptyDir

CallWriteEndpointFiles ==
    /\ pc = "writeEndpointFiles"
    /\ dir' = writeEndpointFiles(data, dir)
    /\ pc' = "writeEndpointFiles.done"
    /\ UNCHANGED <<content, arg, ret, data, prev>>

SpecWrite == InitWrite /\ [][CallWriteEndpointFiles]_vars

\* a value that is not entirely empty: it holds a non-blank string or a
\* non-empty array, at any depth
RECURSIVE HasContent(_)
HasContent(d) ==
    CASE d.type = "string" -> \E i \in 1..Len(d.value) : ~IsSpace(d.value[i])
      [] d.type = "array" -> d.value # <<>>
      [] d.type = "object" -> \E k \in DOMAIN d.value : HasContent(d.value[k])
      [] OTHER -> FALSE

\* C7 (Omission law): after writeEndpointFiles on an empty directory, an
\* endpoint has its <endpoint>.json exactly when the directory file lists
\* "GET /<endpoint>", and exactly when its record is not entirely empty; the
\* directory holds the written endpoint files and the directory file only.
C7_OmissionLaw ==
    pc = "writeEndpointFiles.done" =>
        /\ \A e \in EndpointSet :
              /\ e \in Written(dir) <=> HasContent(data[e])
              /\ e \in Listed(dir) <=> HasContent(data[e])
        /\ Written(dir) = Listed(dir)
        /\ DOMAIN dir = {EndpointFile(e) : e \in Written(dir)} \cup {RootFile}
        /\ Len(dir[RootFile].endpoints) = Cardinality(Listed(dir))

C7_Witness ==
    /\ pc = "writeEndpointFiles.done"
    /\ data["about"] = WithStrings(EmptyProfile["about"], <<" ">>)
    /\ data["thesis"] = WithItems(EmptyProfile["thesis"])
    /\ Written(dir) = {"thesis", "skills"}
    /\ Listed(dir) = {"thesis", "skills"}

\* ------------------------------------------------------------------------
\* What I Offer items
\* ------------------------------------------------------------------------

MaxOfferLines == 4

\* the lines of the What I Offer items of TEMPLATE.md, filled in or left as
\* they are, and the lines that close the About section
OfferLines ==
    { <<"-"," ","*","*","T","i","t","l","e",":","*","*"," ","O","p","s">>, <<"-"," ","*","*","T","i","t","l","e",":","*","*">>, <<"-"," ","*","*","T","i","t","l","e",":","*","*"," ","<","!","-","-"," ","z"," ","-","-",">">>,
      <<" "," ","*","*","D","e","s","c","r","i","p","t","i","o","n",":","*","*"," ","L","e","a","n">>, <<" "," ","*","*","D","e","s","c","r","i","p","t","i","o","n",":","*","*">>,
      <<" "," ","*","*","D","e","s","c","r","i","p","t","i","o","n",":","*","*"," ","<","!","-","-"," ","z"," ","-","-",">">>, <<>>, <<"-","-","-">> }

InitOffer ==
    /\ pc = "extractWhatIOffer"
    /\ content \in {Join(ls) : ls \in SeqsUpTo(OfferLines, MaxOfferLines)}
    /\ arg = <<>> /\ ret = <<>>
    /\ data = NoData /\ prev = NoPrev /\ dir = EmptyDir

CallExtractWhatIOffer ==
    /\ pc = "extractWhatIOffer"
    /\ ret' = extractWhatIOffer(content)
    /\ pc' = "extractWhatIOffer.done"
    /\ UNCHANGED <<content, arg, data, prev, dir>>

SpecOffer == InitOffer /\ [][CallExtractWhatIOffer]_vars

\* the text of a line after a marker it holds, cleaned
AfterMark(line, mark) == cleanValue(SliceFrom(line, IndexOf(line, mark) + Len(mark)))

\* the lines that introduce a block, and the lines of the block of line i
OfferTitleLines(lines) == {i \in 1..Len(lines) : StartsWith(lines[i], OfferTitleMark)}

OfferBlock(lines, i) ==
    {j \in i..Len(lines) : \A k \in (i + 1)..j : k \notin OfferTitleLines(lines)}

\* the description of the block of line i: the text of its Description line
OfferDescription(lines, i) ==
    LET at == {j \in OfferBlock(lines, i) : Includes(lines[j], DescriptionMark)}
    IN  IF at = {} THEN <<>> ELSE AfterMark(lines[Min(at)], DescriptionMark)

\* the items of a text, block by block
OfferItems(text) ==
    LET lines == Split(text, NL)
        kept == Ascending({i \in OfferTitleLines(lines) :
                              AfterMark(lines[i], OfferTitleMark) # <<>>})
    IN  [k \in 1..Len(kept) |->
            [title |-> AfterMark(lines[kept[k]], OfferTitleMark),
             description |-> OfferDescription(lines, kept[k])]]

\* C11 (What-I-offer pairs): extractWhatIOffer returns, for every block
\* introduced by "- **Title:**" whose title is not empty or placeholder-only,
\* the cleaned rest of the title line as title and the cleaned text of the
\* block's Description line as description, the empty string when that line
\* carries no text.
C11_OfferPairs ==
    pc = "extractWhatIOffer.done" => ret = OfferItems(content)

\* ------------------------------------------------------------------------
\* Role blocks
\* ------------------------------------------------------------------------

MaxRoleLines == 4

\* the lines of the Experience section of TEMPLATE.md, filled in or left as
\* they are
RoleLines ==
    { <<"#","#","#"," ","R","o","l","e"," ","1"," ","(","M","o","s","t"," ","R","e","c","e","n","t",")">>, <<"#","#","#"," ","R","o","l","e"," ","2">>, <<"#","#","#"," ","R","o","l","e","s">>,
      <<"-"," ","*","*","T","i","t","l","e",":","*","*"," ","V","P">>, <<"-"," ","*","*","T","i","t","l","e",":","*","*"," ","<","!","-","-"," ","z"," ","-","-",">">>, <<"-"," ","*","*","C","o","m","p","a","n","y",":","*","*"," ","A","c","m","e">>,
      <<"-"," ","*","*","K","e","y"," ","C","o","n","t","r","i","b","u","t","i","o","n","s",":","*","*">>, <<" "," ","-"," ","C","u","t"," ","9">>, <<>> }

InitRoles ==
    /\ pc = "extractRoles"
    /\ content \in {Join(ls) : ls \in SeqsUpTo(RoleLines, MaxRoleLines)}
    /\ arg = <<>> /\ ret = <<>>
    /\ data = NoData /\ prev = NoPrev /\ dir = EmptyDir

CallExtractRoles ==
    /\ pc = "extractRoles"
    /\ ret' = extractRoles(content)
    /\ pc' = "extractRoles.done"
    /\ UNCHANGED <<content, arg, data, prev, dir>>

SpecRoles == InitRoles /\ [][CallExtractRoles]_vars

\* a line that heads a role block: "### Role " and an ordinal
IsRoleHeading(line) ==
    /\ StartsWith(line, RoleMark)
    /\ Len(line) > Len(RoleMark)
    /\ line[Len(RoleMark) + 1] \in Digits

RoleHeadingLines(lines) == {i \in 1..Len(lines) : IsRoleHeading(lines[i])}

\* the text of the block headed by line i: the lines after it up to the next
\* role heading
RoleBlockText(lines, i) ==
    LET later == {j \in RoleHeadingLines(lines) : j > i}
        stop == IF later = {} THEN Len(lines) + 1 ELSE Min(later)
    IN  Join([k \in 1..(stop - i - 1) |-> lines[i + k]])

TitleLabel == <<"T","i","t","l","e">>
CompanyLabel == <<"C","o","m","p","a","n","y">>

\* the blocks that have a title or a company, in document order
KeptRoleBlocks(text) ==
    LET lines == Split(text, NL)
        kept == Ascending({i \in RoleHeadingLines(lines) :
                    \/ extractField(RoleBlockText(lines, i), TitleLabel) # <<>>
                    \/ extractField(RoleBlockText(lines, i), CompanyLabel) # <<>>})
    IN  [k \in 1..Len(kept) |-> RoleBlockText(lines, kept[k])]

\* the text of the headings: the word, the ordinals and the annotation
HeadingTexts == { <<"R","o","l","e">>, <<"1">>, <<"2">>, <<"M","o","s","t"," ","R","e","c","e","n","t">> }

RoleStrings(r) ==
    {r.title, r.company, r.dates, r.location, r.description}
        \cup {r.contributions[i] : i \in 1..Len(r.contributions)}

\* the example of two role blocks
RolesExample ==
    Join(<< <<"#","#","#"," ","R","o","l","e"," ","1"," ","(","M","o","s","t"," ","R","e","c","e","n","t",")">>, <<"-"," ","*","*","T","i","t","l","e",":","*","*"," ","V","P">>,
            <<"#","#","#"," ","R","o","l","e"," ","2">>, <<"-"," ","*","*","C","o","m","p","a","n","y",":","*","*"," ","A","c","m","e">> >>)

RolesExampleRecords ==
    << [title |-> <<"V","P">>, company |-> <<>>, dates |-> <<>>, location |-> <<>>,
        description |-> <<>>, contributions |-> <<>>],
       [title |-> <<>>, company |-> <<"A","c","m","e">>, dates |-> <<>>, location |-> <<>>,
        description |-> <<>>, contributions |-> <<>>] >>

\* C12 (Repeated-group parsing): extractRoles returns exactly one record per
\* "### Role N" block whose title or company is non-empty, in document
\* order, each holding the fields and contributions of its own block; no
\* value holds the ordinal or the annotation of a heading; a block with both
\* title and company empty yields no record.
C12_RoleBlocks ==
    pc = "extractRoles.done" =>
        LET blocks == KeptRoleBlocks(content)
        IN  /\ Len(ret) = Len(blocks)
            /\ \A k \in 1..Len(blocks) :
                  /\ ret[k].title = extractField(blocks[k], TitleLabel)
                  /\ ret[k].company = extractField(blocks[k], CompanyLabel)
                  /\ ret[k].contributions = extractBulletList(blocks[k], KeyContributions)
                  /\ ret[k].title # <<>> \/ ret[k].company # <<>>
            /\ \A k \in 1..Len(ret) : \A s \in RoleStrings(ret[k]) :
                  \A h \in HeadingTexts : ~Includes(s, h)
            /\ content = RolesExample => ret = RolesExampleRecords

C12_Witness ==
    /\ pc = "extractRoles.done"
    /\ content = RolesExample
    /\ ret = RolesExampleRecords

\* ------------------------------------------------------------------------
\* The entries of one role block, in any order
\* ------------------------------------------------------------------------

MaxEntries == 3

\* the labeled entries of a role block of TEMPLATE.md, filled in; the Key
\* Contributions entry goes with its nested items
RoleEntries ==
    { << <<"-"," ","*","*","T","i","t","l","e",":","*","*"," ","V","P">> >>, << <<"-"," ","*","*","C","o","m","p","a","n","y",":","*","*"," ","A","c","m","e">> >>,
      << <<"-"," ","*","*","D","a","t","e","s",":","*","*"," ","2","0","2","1">> >>, << <<"-"," ","*","*","L","o","c","a","t","i","o","n",":","*","*"," ","C","h","i","c","a","g","o">> >>,
      << <<"-"," ","*","*","D","e","s","c","r","i","p","t","i","o","n",":","*","*"," ","O","p","s">> >>,
      << <<"-"," ","*","*","K","e","y"," ","C","o","n","t","r","i","b","u","t","i","o","n","s",":","*","*">>, <<" "," ","-"," ","C","u","t"," ","9">> >> }

\* the lines of a sequence of entries
RECURSIVE EntryLines(_)
EntryLines(entries) ==
    IF entries = <<>> THEN <<>> ELSE Head(entries) \o EntryLines(Tail(entries))

RoleBlock(entries) == Join(<< <<"#","#","#"," ","R","o","l","e"," ","1">> >> \o EntryLines(entries))

\* the orderings of some of the entries, each taken once
EntryOrders ==
    {es \in SeqsUpTo(RoleEntries, MaxEntries) :
        \A i, j \in 1..Len(es) : es[i] = es[j] => i = j}

InitRoleOrder ==
    /\ pc = "extractRoles"
    /\ arg \in EntryOrders
    /\ content = RoleBlock(arg)
    /\ ret = <<>>
    /\ data = NoData /\ prev = NoPrev /\ dir = EmptyDir

\* the user moves the entries of the block around; the records of the run
\* before are remembered
ReorderEntries ==
    /\ pc = "extractRoles.done"
    /\ ~prev.ran
    /\ \E es \in EntryOrders :
          /\ es # arg
          /\ Len(es) = Len(arg)
          /\ {es[i] : i \in 1..Len(es)} = {arg[i] : i \in 1..Len(arg)}
          /\ arg' = es
          /\ content' = RoleBlock(es)
    /\ prev' = [ran |-> TRUE, data |-> ret, edited |-> "none"]
    /\ pc' = "extractRoles"
    /\ UNCHANGED <<ret, data, dir>>

SpecRoleOrder == InitRoleOrder /\ [][CallExtractRoles \/ ReorderEntries]_vars

\* C13 (Field order independence in a role block): the records extracted
\* from a block after its labeled entries were reordered are the records
\* extracted before: every field value and the contribution list are
\* unchanged.
C13_EntryOrderIndependence ==
    (pc = "extractRoles.done" /\ prev.ran) => ret = prev.data

\* ------------------------------------------------------------------------
\* Where a list ends, and the order of its items
\* ------------------------------------------------------------------------

\* the lines after the marker that give an item, and the lines that end the
\* list: a line that is neither blank nor a bullet, after an item
ItemLines(lines) ==
    {i \in 1..Len(lines) :
        IsBulletLine(lines[i]) /\ cleanValue(SliceFrom(Trim(lines[i]), 2)) # <<>>}

EndingLines(lines) ==
    {j \in 1..Len(lines) :
        /\ Trim(lines[j]) # <<>>
        /\ ~IsBulletLine(lines[j])
        /\ \E i \in ItemLines(lines) : i < j}

\* C14 (List termination on a non-bullet line): once an item is collected,
\* the first following non-blank line that is not a bullet ends the list: the
\* list is the list of the span cut at that line, no bullet after it is
\* returned.
C14_ListTermination ==
    pc = "extractBulletList.done" =>
        LET lines == LinesAfter(content, arg)
            ends == EndingLines(lines)
        IN  ends # {} =>
                ret = extractBulletList(arg \o Join(SubSeq(lines, 1, Min(ends) - 1)), arg)

\* the cleaned texts of all the item lines after the marker, in order
AllItems(text, marker) ==
    LET lines == LinesAfter(text, marker)
        at == Ascending(ItemLines(lines))
    IN  [k \in 1..Len(at) |-> cleanValue(SliceFrom(Trim(lines[at[k]]), 2))]

\* the number of item lines that follow the marker line one after the other
LeadingItems(text, marker) ==
    LET lines == LinesAfter(text, marker)
    IN  Cardinality({i \in 2..Len(lines) : \A j \in 2..i : j \in ItemLines(lines)})

\* the example of three consecutive bullets
ListExample ==
    Join(<< <<"#","#","#"," ","M","e","t","h","o","d","o","l","o","g","i","e","s">>, <<"-"," ","A">>, <<"*"," ","B">>, <<" "," ","-"," ","C"," ","<","!","-","-"," ","z"," ","-","-",">">> >>)

\* C15 (List order preservation): extractBulletList returns the items in
\* their order of appearance, each line giving at most one item: the result
\* is the sequence of the item lines after the marker up to where the list
\* ends, and holds at least the bullets that directly follow the marker;
\* for consecutive bullets A, B, C it is exactly [A, B, C].
C15_ListOrder ==
    pc = "extractBulletList.done" =>
        LET all == AllItems(content, arg)
        IN  /\ Len(ret) <= Len(all)
            /\ ret = SubSeq(all, 1, Len(ret))
            /\ Len(ret) >= LeadingItems(content, arg)
            /\ content = ListExample => ret = << <<"A">>, <<"B">>, <<"C">> >>

C15_Witness ==
    /\ pc = "extractBulletList.done"
    /\ content = ListExample
    /\ ret = << <<"A">>, <<"B">>, <<"C">> >>

\* ------------------------------------------------------------------------
\* Labels that hold another label
\* ------------------------------------------------------------------------

\* the delimited marker of a label, and a span with the longer label only
ExactMarker(label) == <<"*", "*">> \o label \o <<":", "*", "*">>

PreferredNameOnly == <<"*","*","P","r","e","f","e","r","r","e","d"," ","N","a","m","e",":","*","*"," ","A","l">>

\* C16 (Exact label match): extractField returns the empty string when the
\* span holds no "**label:**" marker, also when it holds a label that has
\* the label as a substring: Name from a span holding only
\* "**Preferred Name:** Al" is the empty string; a non-empty value is only
\* returned for a span that holds the exact marker.
C16_ExactLabel ==
    pc = "extractField.done" =>
        /\ ~Includes(content, ExactMarker(arg)) => ret = <<>>
        /\ (content = PreferredNameOnly /\ arg = <<"N","a","m","e">>) => ret = <<>>

C16_Witness ==
    /\ pc = "extractField.done"
    /\ content = PreferredNameOnly
    /\ arg = <<"N","a","m","e">>
    /\ ret = <<>>

\* ------------------------------------------------------------------------
\* Cleaning a value
\* ------------------------------------------------------------------------

MaxCleanTokens == 5

\* the pieces the strings handed to cleanValue are made of
CleanTokens ==
    { <<"<","!","-","-"," ","z"," ","-","-",">">>, CommentOpen, CommentClose, <<"A">>, <<"b">>, <<" ">>, <<NL>> }

RECURSIVE Concat(_)
Concat(pieces) == IF pieces = <<>> THEN <<>> ELSE Head(pieces) \o Concat(Tail(pieces))

InitClean ==
    /\ pc = "cleanValue"
    /\ content \in {Concat(ps) : ps \in SeqsUpTo(CleanTokens, MaxCleanTokens)}
    /\ arg = <<>> /\ ret = <<>>
    /\ data = NoData /\ prev = NoPrev /\ dir = EmptyDir

CallCleanValue ==
    /\ pc = "cleanValue"
    /\ ret' = cleanValue(content)
    /\ pc' = "cleanValue.done"
    /\ UNCHANGED <<content, arg, data, prev, dir>>

SpecClean == InitClean /\ [][CallCleanValue]_vars

\* the positions of s that lie in a complete comment span, found from
\* position from on: a span runs from an opener to the first closer after it
RECURSIVE SpanPositions(_, _)
SpanPositions(s, from) ==
    LET opens == {i \in Occurrences(s, CommentOpen) : i >= from}
    IN  IF opens = {} THEN {}
        ELSE LET o == Min(opens)
                 closes == {j \in Occurrences(s, CommentClose) : j >= o + Len(CommentOpen)}
             IN  IF closes = {} THEN {}
                 ELSE LET c == Min(closes) + Len(CommentClose)
                      IN  ((o + 1)..c) \cup SpanPositions(s, c)

\* the characters of s outside the spans, in order
Outside(s) ==
    LET at == Ascending((1..Len(s)) \ SpanPositions(s, 0))
    IN  [k \in 1..Len(at) |-> s[at[k]]]

\* the characters of s that are no whitespace, in order
Visible(s) == SelectSeq(s, LAMBDA c : ~IsSpace(c))

\* s between its first and its last visible character
Interior(s) ==
    LET at == {i \in 1..Len(s) : ~IsSpace(s[i])}
    IN  IF at = {} THEN <<>>
        ELSE SubSeq(s, Min(at), CHOOSE i \in at : \A j \in at : j <= i)

\* the number of c in s, and the number of newline runs of s
CountOf(s, c) == Cardinality({i \in 1..Len(s) : s[i] = c})

NewlineRuns(s) == Cardinality({i \in 1..Len(s) : s[i] = NL /\ (i = 1 \/ s[i - 1] # NL)})

\* C17 (Cleaning preserves content): cleanValue keeps every visible character
\* outside the complete comment spans, in order, and adds none; the result
\* has no whitespace at either end and no newline; the spaces between its
\* first and last visible character are kept and each run of newlines there
\* is one more space.
C17_CleaningPreserves ==
    pc = "cleanValue.done" =>
        LET inner == Interior(Outside(content))
        IN  /\ Visible(ret) = Visible(Outside(content))
            /\ ret = Interior(ret)
            /\ CountOf(ret, NL) = 0
            /\ CountOf(ret, " ") = CountOf(inner, " ") + NewlineRuns(inner)
            /\ Len(ret) = Len(inner) - CountOf(inner, NL) + NewlineRuns(inner)

C17_Witness ==
    /\ pc = "cleanValue.done"
    /\ content = <<"<","!","-","-"," ","z"," ","-","-",">","A","\n","\n","b">>
    /\ ret = <<"A"," ","b">>

\* ------------------------------------------------------------------------
\* The parse command of the deploy tool, and templates that are not there
\* ------------------------------------------------------------------------

\* parse() once the template is read: the records are written into the
\* output directory
ParseWrites(parsed) ==
    /\ data' = parsed
    /\ dir' = writeEndpointFiles(parsed, dir)

\* the exit status of a parse that fails when the records give no endpoint
FailEmptyStatus(parsed) ==
    IF availableEndpoints(parsed) = <<>> THEN "parse.exit1" ELSE "parse.exit0"

\* a parse that goes on without looking for the template: nothing is read,
\* the directory file is written and success is reported
ParseCommand_NoCheck ==
    /\ pc = "parse"
    /\ ParseWrites(parseTemplate(IF content = Missing THEN <<>> ELSE content))
    /\ pc' = "parse.exit0"
    /\ UNCHANGED <<content, arg, ret, prev>>

\* a parse that reports failure when the template gives no endpoint
ParseCommand_FailEmpty ==
    /\ pc = "parse"
    /\ IF content = Missing
       THEN /\ pc' = "parse.exit1"
            /\ UNCHANGED <<data, dir>>
       ELSE /\ ParseWrites(parseTemplate(content))
            /\ pc' = FailEmptyStatus(data')
    /\ UNCHANGED <<content, arg, ret, prev>>

\* "deploy.ts parse": parse() returns false when the template does not
\* exist, and true after parseTemplate and writeEndpointFiles; the process
\* exits with status 0 when it returned true, 1 otherwise
ParseCommand ==
    /\ pc = "parse"
    /\ IF content = Missing
       THEN /\ pc' = "parse.exit1"
            /\ UNCHANGED <<data, dir>>
       ELSE /\ ParseWrites(parseTemplate(content))
            /\ pc' = "parse.exit0"
    /\ UNCHANGED <<content, arg, ret, prev>>

MaxParseLines == 3

\* the template is missing, empty, or any text of headings and body lines:
\* sections missing, repeated, out of order, with lines of another section
InitParse ==
    /\ pc \in {"parser", "parse"}
    /\ content \in {Missing, <<>>} \cup Docs(MaxParseLines)
    /\ arg = <<>> /\ ret = <<>>
    /\ data = NoData /\ prev = NoPrev /\ dir = EmptyDir

\* after a run the template is moved away, and a parse is started again; the
\* data directory holds the files of the run
RemoveTemplate ==
    /\ pc \in {"parser.done", "parse.exit0"}
    /\ content # Missing
    /\ content' = Missing
    /\ pc' \in {"parser", "parse"}
    /\ UNCHANGED <<arg, ret, data, prev, dir>>

SpecParse == InitParse /\ [][RunParser \/ ParseCommand \/ RemoveTemplate]_vars

\* C18 (Missing-document fatal): a parse of a template that does not exist
\* ends with exit status 1 (parse() returned false), returns no records and
\* leaves the output directory as it was: no file is written.
C18_MissingFatal ==
    [][content = Missing =>
          /\ pc' \in {"parser.exit1", "parse.exit1"}
          /\ dir' = dir
          /\ data' = data]_vars

C18_Witness ==
    /\ pc = "parse.exit1"
    /\ content = Missing
    /\ Written(dir) = {"about"}
    /\ RootFile \in DOMAIN dir

\* a template with its sections out of order and without bodies
SkillsBeforeAbout == <<"#","#"," ","S","k","i","l","l","s","\n","#","#"," ","A","b","o","u","t">>

MaxOpens == 3

\* the templates the parser is pointed at, one after the other
ReparseDocs ==
    { <<>>, <<"#","#"," ","A","b","o","u","t","\n","*","*","N","a","m","e",":","*","*"," ","A","l">>, <<"#","#"," ","A","b","o","u","t","\n","-"," ","*","*","T","i","t","l","e",":","*","*"," ","O","p","s">>,
      <<"#","#"," ","S","k","i","l","l","s","\n","#","#","#"," ","T","e","c","h","n","i","c","a","l","\n","-"," ","G","o">>, <<"#","#"," ","A","b","o","u","t","\n","#","#"," ","N","a","r","r","a","t","i","v","e","\n","*","*","P","h","i","l","o","s","o","p","h","y",":","*","*"," ","L","e","a","n">> }

InitReparse ==
    /\ pc = "parser"
    /\ content \in ReparseDocs
    /\ arg = [first |-> content, opens |-> 0, records |-> NoData]
    /\ ret = <<>>
    /\ data = NoData /\ prev = NoPrev /\ dir = EmptyDir

\* the user runs the parser on another template, or on the same one again;
\* the records of the first run are remembered
OpenTemplate ==
    /\ pc = "parser.done"
    /\ arg.opens < MaxOpens
    /\ content' \in ReparseDocs
    /\ arg' = [arg EXCEPT !.opens = @ + 1,
                           !.records = IF arg.opens = 0 THEN data ELSE @]
    /\ pc' = "parser"
    /\ UNCHANGED <<ret, data, prev, dir>>

SpecReparse == InitReparse /\ [][RunParser \/ OpenTemplate]_vars

C21_ReportedCount ==
    pc = "parser.done" =>
        /\ ret.files = Cardinality(DOMAIN dir)
        /\ ret.files = Cardinality({e \in EndpointSet : HasContent(data[e])}) + 1

\* C27 (No stale records across runs): after any sequence of runs that
\* write to the same data directory, the endpoint files in the directory are
\* exactly the endpoints the latest root.json lists; a record that is empty
\* in the latest template has no file left from an earlier run.
C27_NoStaleRecords ==
    pc = "parser.done" =>
        /\ Written(dir) = Listed(dir)
        /\ \A e \in EndpointSet : ~HasContent(data[e]) => e \notin Written(dir)

\* ------------------------------------------------------------------------
\* The worker: routing of a request
\* ------------------------------------------------------------------------

MaxPathPieces == 3

\* the route table: the nine paths and the data file each one serves
routes ==
    ( <<"/","a","b","o","u","t">> :> "about" ) @@ ( <<"/","n","a","r","r","a","t","i","v","e">> :> "narrative" )
    @@ ( <<"/","t","h","e","s","i","s">> :> "thesis" ) @@ ( <<"/","a","c","c","o","m","p","l","i","s","h","m","e","n","t","s">> :> "accomplishments" )
    @@ ( <<"/","t","r","a","c","k","-","r","e","c","o","r","d">> :> "track-record" ) @@ ( <<"/","e","x","p","e","r","i","e","n","c","e">> :> "experience" )
    @@ ( <<"/","s","e","e","k","i","n","g">> :> "seeking" ) @@ ( <<"/","c","u","l","t","u","r","a","l","-","f","i","t">> :> "cultural-fit" )
    @@ ( <<"/","s","k","i","l","l","s">> :> "skills" )

\* a path with one trailing slash removed at most
StripTrailingSlashes_One(path) ==
    IF path # <<>> /\ path[Len(path)] = "/" THEN SubSeq(path, 1, Len(path) - 1) ELSE path

\* url.pathname.replace(/\/+$/, "")
StripTrailingSlashes(path) ==
    LET keep == {k \in 0..Len(path) : \A i \in (k + 1)..Len(path) : path[i] = "/"}
    IN  SubSeq(path, 1, Min(keep))

\* the response of the worker: a status and a body
jsonResponse(body, status) == [status |-> status, body |-> body]

buildRootResponse == [kind |-> "directory", endpoints |-> DOMAIN routes]

\* fetch(request)
fetch(request) ==
    IF request.method = "OPTIONS" THEN [status |-> 204, body |-> [kind |-> "none"]]
    ELSE IF request.method # "GET"
    THEN jsonResponse([kind |-> "error", error |-> "Method not allowed"], 405)
    ELSE LET stripped == StripTrailingSlashes(request.pathname)
             path == IF stripped = <<>> THEN <<"/">> ELSE stripped
         IN  IF path = <<"/">> THEN jsonResponse(buildRootResponse, 200)
             ELSE IF path \in DOMAIN routes
             THEN jsonResponse([kind |-> "data", file |-> routes[path]], 200)
             ELSE jsonResponse([kind |-> "error", error |-> "Not found",
                                available_endpoints |-> DOMAIN routes], 404)

\* the requests: a method, and a pathname made of a leading slash and pieces
Methods == {"GET", "OPTIONS", "POST", "HEAD"}

PathPieces == { <<"/">>, <<"a","b","o","u","t">>, <<"s","k","i","l","l","s">>, <<"A","b","o","u","t">>, <<"x">> }

InitFetch ==
    /\ pc = "fetch"
    /\ \E m \in Methods, ps \in {<<>>} \cup SeqsUpTo(PathPieces, MaxPathPieces) :
          arg = [method |-> m, pathname |-> <<"/">> \o Concat(ps)]
    /\ content = <<>> /\ ret = <<>>
    /\ data = NoData /\ prev = NoPrev /\ dir = EmptyDir

CallFetch ==
    /\ pc = "fetch"
    /\ ret' = fetch(arg)
    /\ pc' = "fetch.done"
    /\ UNCHANGED <<content, arg, data, prev, dir>>

SpecFetch == InitFetch /\ [][CallFetch]_vars

\* a path without the slashes at its end
IsNormalOf(p, path) ==
    /\ Len(p) <= Len(path)
    /\ p = SubSeq(path, 1, Len(p))
    /\ \A i \in (Len(p) + 1)..Len(path) : path[i] = "/"
    /\ p = <<>> \/ p[Len(p)] # "/"

\* the paths that are served: the root and the nine endpoints
ServedPaths ==
    { <<>>, <<"/","a","b","o","u","t">>, <<"/","n","a","r","r","a","t","i","v","e">>, <<"/","t","h","e","s","i","s">>, <<"/","a","c","c","o","m","p","l","i","s","h","m","e","n","t","s">>,
      <<"/","t","r","a","c","k","-","r","e","c","o","r","d">>, <<"/","e","x","p","e","r","i","e","n","c","e">>, <<"/","s","e","e","k","i","n","g">>, <<"/","c","u","l","t","u","r","a","l","-","f","i","t">>,
      <<"/","s","k","i","l","l","s">> }

IsServed(path) == \E p \in ServedPaths : IsNormalOf(p, path)

\* C26 (Worker routing): the worker answers 200 with data only to a GET of
\* "/" or of one of the nine endpoint paths, slashes at the end of the path
\* aside; any other GET gets 404, OPTIONS gets 204, and any other method
\* gets 405; only a 200 answer carries the directory or profile data.
C26_WorkerRouting ==
    pc = "fetch.done" =>
        /\ ret.status = 200 <=> (arg.method = "GET" /\ IsServed(arg.pathname))
        /\ (arg.method = "GET" /\ ~IsServed(arg.pathname)) => ret.status = 404
        /\ arg.method = "OPTIONS" => ret.status = 204
        /\ arg.method \notin {"GET", "OPTIONS"} => ret.status = 405
        /\ ret.status = 200 <=> ret.body.kind \in {"data", "directory"}
        /\ (arg.method = "GET" /\ arg.pathname = <<"/","a","b","o","u","t","/","/">>) =>
              ret = [status |-> 200, body |-> [kind |-> "data", file |-> "about"]]

C26_Witness ==
    /\ pc = "fetch.done"
    /\ arg = [method |-> "GET", pathname |-> <<"/","a","b","o","u","t","/","/">>]
    /\ ret = [status |-> 200, body |-> [kind |-> "data", file |-> "about"]]

\* ------------------------------------------------------------------------
\* The About section: top-level fields and What I Offer items
\* ------------------------------------------------------------------------

MaxAboutLines == 4

AboutHeading == <<"#","#"," ","A","b","o","u","t">>
OfferHeading == <<"#","#","#"," ","W","h","a","t"," ","I"," ","O","f","f","e","r">>

\* the lines of the About section of TEMPLATE.md, filled in
AboutLines ==
    { <<"*","*","N","a","m","e",":","*","*"," ","A","l">>, <<"*","*","T","i","t","l","e",":","*","*"," ","V","P">>, OfferHeading,
      <<"-"," ","*","*","T","i","t","l","e",":","*","*"," ","O","p","s">>, <<" "," ","*","*","D","e","s","c","r","i","p","t","i","o","n",":","*","*"," ","L","e","a","n">>, <<>> }

InitAbout ==
    /\ pc = "parser"
    /\ content \in {Join(<<AboutHeading>> \o ls) : ls \in SeqsUpTo(AboutLines, MaxAboutLines)}
    /\ arg = <<>> /\ ret = <<>>
    /\ data = NoData /\ prev = NoPrev /\ dir = EmptyDir

SpecAbout == InitAbout /\ [][RunParser]_vars

\* the text of the About section before its What I Offer subsection
TopLevelText(text) ==
    LET lines == Tail(Split(text, NL))
        at == {i \in 1..Len(lines) : lines[i] = OfferHeading}
    IN  Join(IF at = {} THEN lines ELSE SubSeq(lines, 1, Min(at) - 1))

HasTopLevelField(text, label) ==
    LET lines == Split(TopLevelText(text), NL)
    IN  \E i \in 1..Len(lines) : StartsWith(lines[i], ExactMarker(label))

\* C28 (About scalars come from top-level fields only): about.name and
\* about.title are the values of the labeled fields placed before the
\* "### What I Offer" subsection; without a top-level "**Title:**" field
\* about.title is the empty string, whatever the What I Offer items hold.
C28_AboutTopLevelOnly ==
    pc = "parser.done" =>
        LET about == data["about"].value
        IN  /\ about.name = Str(extractField(TopLevelText(content), <<"N","a","m","e">>))
            /\ about.title = Str(extractField(TopLevelText(content), <<"T","i","t","l","e">>))
            /\ ~HasTopLevelField(content, <<"T","i","t","l","e">>) => about.title = Str(<<>>)

\* ------------------------------------------------------------------------
\* The wizard: generateTemplate
\* ------------------------------------------------------------------------

\* U+2014 of the title line, written with a character of the module's
\* alphabet that the parser gives no meaning to
EmDash == "_"

\* for (const item of items) template += `- ${item}\n`
Bullets(items) == Concat([k \in 1..Len(items) |-> <<"-"," ">> \o items[k] \o <<NL>>])

TemplateIntro ==
    Concat(<<<<"#"," ","L","i","v","i","n","g"," ","R","e","s","u","m","e"," ","A","P","I"," ">>, <<EmDash>>, <<" ","Y","o","u","r"," ","P","r","o","f","e","s","s","i","o","n","a","l"," ","P","r","o","f","i","l","e","\n","\n">>,
             <<">"," ","F","i","l","l"," ","i","n"," ","e","a","c","h"," ","s","e","c","t","i","o","n"," ","b","e","l","o","w","."," ","T","h","i","s"," ","f","i","l","e"," ","b","e","c","o","m","e","s"," ","y","o","u","r"," ","L","i","v","i","n","g"," ","R","e","s","u","m","e"," ","A","P","I",".","\n">>,
             <<">"," ","E","v","e","r","y"," ","s","e","c","t","i","o","n"," ","m","a","p","s"," ","d","i","r","e","c","t","l","y"," ","t","o"," ","a","n"," ","A","P","I"," ","e","n","d","p","o","i","n","t"," ","t","h","a","t"," ","m","a","c","h","i","n","e","s",","," ","r","e","c","r","u","i","t","e","r","s",",","\n">>,
             <<">"," ","a","n","d"," ","A","I"," ","a","g","e","n","t","s"," ","c","a","n"," ","q","u","e","r","y"," ","a","b","o","u","t"," ","y","o","u",".","\n","\n">>,
             <<"-","-","-","\n","\n">>>>)

TemplateAbout(d) ==
    Concat(<<<<"#","#"," ","A","b","o","u","t","\n","\n">>,
             <<"*","*","N","a","m","e",":","*","*"," ">>, d.name, <<"\n","\n">>,
             <<"*","*","P","r","e","f","e","r","r","e","d"," ","N","a","m","e",":","*","*"," ">>, d.preferredName, <<"\n","\n">>,
             <<"*","*","T","i","t","l","e",":","*","*"," ">>, d.title, <<"\n","\n">>,
             <<"*","*","L","o","c","a","t","i","o","n",":","*","*"," ">>, d.location, <<"\n","\n">>,
             <<"*","*","C","o","r","e"," ","T","h","e","s","i","s",":","*","*","\n">>, d.coreThesis, <<"\n","\n">>,
             <<"*","*","T","h","e"," ","M","o","m","e","n","t",":","*","*","\n">>, d.theMoment, <<"\n","\n">>,
             <<"#","#","#"," ","W","h","a","t"," ","I"," ","O","f","f","e","r","\n","\n">>,
             Concat([k \in 1..Len(d.whatIOffer) |->
                 Concat(<<<<"-"," ","*","*","T","i","t","l","e",":","*","*"," ">>, d.whatIOffer[k].title, <<NL>>,
                          <<" "," ","*","*","D","e","s","c","r","i","p","t","i","o","n",":","*","*"," ">>, d.whatIOffer[k].description, <<"\n","\n">>>>)]),
             <<"-","-","-","\n","\n">>>>)

TemplateNarrative(d) ==
    Concat(<<<<"#","#"," ","N","a","r","r","a","t","i","v","e","\n","\n">>,
             <<"*","*","P","r","o","f","e","s","s","i","o","n","a","l"," ","N","a","r","r","a","t","i","v","e",":","*","*","\n">>, d.professionalNarrative, <<"\n","\n">>,
             <<"*","*","P","h","i","l","o","s","o","p","h","y",":","*","*","\n">>, d.philosophy, <<"\n","\n">>,
             <<"-","-","-","\n","\n">>>>)

TemplateThesis(d) ==
    Concat(<<<<"#","#"," ","T","h","e","s","i","s","\n","\n">>,
             <<"*","*","C","o","r","e"," ","T","h","e","s","i","s",":","*","*","\n">>, d.coreThesis, <<"\n","\n">>,
             <<"*","*","T","h","e"," ","M","o","m","e","n","t",":","*","*","\n">>, d.theMoment, <<"\n","\n">>,
             <<"#","#","#"," ","I","m","p","l","i","c","a","t","i","o","n","s","\n","\n">>,
             Bullets(d.implications),
             <<"\n","-","-","-","\n","\n">>>>)

TemplateAccomplishments(d) ==
    Concat(<<<<"#","#"," ","A","c","c","o","m","p","l","i","s","h","m","e","n","t","s","\n","\n">>,
             <<"#","#","#"," ","F","i","n","a","n","c","i","a","l"," ","I","m","p","a","c","t","\n","\n">>,
             <<"|"," ","A","c","c","o","m","p","l","i","s","h","m","e","n","t"," ","|"," ","C","o","m","p","a","n","y"," ","|"," ","V","a","l","u","e"," ","|","\n">>,
             <<"|","-","-","-","-","-","-","-","-","-","-","-","-","-","-","-","-","|","-","-","-","-","-","-","-","-","-","|","-","-","-","-","-","-","-","|","\n">>,
             Concat([k \in 1..Len(d.financialImpact) |->
                 Concat(<<<<"|"," ">>, d.financialImpact[k].accomplishment, <<" ","|"," ">>, d.financialImpact[k].company,
                          <<" ","|"," ">>, d.financialImpact[k].value, <<" ","|","\n">>>>)]),
             <<"\n","#","#","#"," ","O","p","e","r","a","t","i","o","n","a","l"," ","S","c","a","l","e","\n","\n">>,
             Bullets(d.operationalScale),
             <<"\n","#","#","#"," ","R","e","c","o","g","n","i","t","i","o","n"," ","&"," ","I","n","n","o","v","a","t","i","o","n","\n","\n">>,
             IF Len(d.recognition) > 0 THEN Bullets(d.recognition)
             ELSE <<"-"," ","<","!","-","-"," ","A","d","d"," ","r","e","c","o","g","n","i","t","i","o","n"," ","i","t","e","m","s"," ","i","f"," ","a","p","p","l","i","c","a","b","l","e"," ","-","-",">","\n">>,
             <<"\n","-","-","-","\n","\n">>>>)

TemplateTrackRecord(d) ==
    Concat(<<<<"#","#"," ","T","r","a","c","k"," ","R","e","c","o","r","d","\n","\n">>,
             <<"#","#","#"," ","H","e","a","d","l","i","n","e"," ","S","t","a","t","s","\n","\n">>,
             <<"|"," ","S","t","a","t"," ","|"," ","C","o","n","t","e","x","t"," ","|","\n">>,
             <<"|","-","-","-","-","-","-","|","-","-","-","-","-","-","-","-","-","|","\n">>,
             Concat([k \in 1..Len(d.headlineStats) |->
                 Concat(<<<<"|"," ">>, d.headlineStats[k].stat, <<" ","|"," ">>, d.headlineStats[k].context, <<" ","|","\n">>>>)]),
             <<"\n","-","-","-","\n","\n">>>>)

\* the decimal digits of i + 1 for the loop indices the wizard can produce
RoleNumber(i) == <<<<"1">>, <<"2">>, <<"3">>, <<"4">>, <<"5">>>>[i + 1]

TemplateRole(role, i) ==
    Concat(<<<<"#","#","#"," ","R","o","l","e"," ">>, RoleNumber(i), IF i = 0 THEN <<" ","(","M","o","s","t"," ","R","e","c","e","n","t",")">> ELSE <<>>, <<"\n","\n">>,
             <<"-"," ","*","*","T","i","t","l","e",":","*","*"," ">>, role.title, <<NL>>,
             <<"-"," ","*","*","C","o","m","p","a","n","y",":","*","*"," ">>, role.company, <<NL>>,
             <<"-"," ","*","*","D","a","t","e","s",":","*","*"," ">>, role.dates, <<NL>>,
             <<"-"," ","*","*","L","o","c","a","t","i","o","n",":","*","*"," ">>, role.location, <<NL>>,
             <<"-"," ","*","*","D","e","s","c","r","i","p","t","i","o","n",":","*","*"," ">>, role.description, <<NL>>,
             <<"-"," ","*","*","K","e","y"," ","C","o","n","t","r","i","b","u","t","i","o","n","s",":","*","*","\n">>,
             Concat([k \in 1..Len(role.contributions) |-> <<" "," ","-"," ">> \o role.contributions[k] \o <<NL>>]),
             <<NL>>>>)

TemplateExperience(d) ==
    Concat(<<<<"#","#"," ","E","x","p","e","r","i","e","n","c","e","\n","\n">>,
             Concat([k \in 1..Len(d.experience) |-> TemplateRole(d.experience[k], k - 1)]),
             <<"-","-","-","\n","\n">>>>)

TemplateSeeking(d) ==
    Concat(<<<<"#","#"," ","S","e","e","k","i","n","g","\n","\n">>,
             <<"*","*","T","a","r","g","e","t"," ","R","o","l","e","s",":","*","*","\n">>,
             Bullets(d.targetRoles),
             <<"\n","*","*","R","e","p","o","r","t","i","n","g"," ","R","e","l","a","t","i","o","n","s","h","i","p",":","*","*","\n">>, d.reportingRelationship, <<"\n","\n">>,
             <<"#","#","#"," ","O","r","g","a","n","i","z","a","t","i","o","n"," ","T","y","p","e","s","\n","\n">>,
             <<"|"," ","O","r","g","a","n","i","z","a","t","i","o","n"," ","T","y","p","e"," ","|"," ","W","h","a","t"," ","I"," ","B","r","i","n","g"," ","|","\n">>,
             <<"|","-","-","-","-","-","-","-","-","-","-","-","-","-","-","-","-","-","-","-","|","-","-","-","-","-","-","-","-","-","-","-","-","-","-","|","\n">>,
             Concat([k \in 1..Len(d.organizationTypes) |->
                 Concat(<<<<"|"," ">>, d.organizationTypes[k].type, <<" ","|"," ">>, d.organizationTypes[k].whatIBring, <<" ","|","\n">>>>)]),
             <<"\n","*","*","I","n","d","u","s","t","r","y",":","*","*","\n">>, d.industry, <<"\n","\n">>,
             <<"-","-","-","\n","\n">>>>)

TemplateCulturalFit(d) ==
    Concat(<<<<"#","#"," ","C","u","l","t","u","r","a","l"," ","F","i","t","\n","\n">>,
             <<"#","#","#"," ","I"," ","T","h","r","i","v","e"," ","I","n","\n","\n">>,
             Bullets(d.thriveIn),
             <<"\n","#","#","#"," ","N","o","t"," ","R","i","g","h","t"," ","F","o","r","\n","\n">>,
             Bullets(d.notRightFor),
             <<"\n","-","-","-","\n","\n">>>>)

TemplateSkills(d) ==
    Concat(<<<<"#","#"," ","S","k","i","l","l","s","\n","\n">>,
             <<"#","#","#"," ","M","e","t","h","o","d","o","l","o","g","i","e","s","\n","\n">>,
             Bullets(d.methodologies),
             <<"\n","#","#","#"," ","T","e","c","h","n","i","c","a","l","\n","\n">>,
             Bullets(d.technical),
             <<"\n","#","#","#"," ","D","o","m","a","i","n"," ","E","x","p","e","r","t","i","s","e","\n","\n">>,
             Bullets(d.domain),
             <<NL>>>>)

\* generateTemplate(data): the text of TEMPLATE.md for a completed run
generateTemplate(d) ==
    Concat(<<TemplateIntro, TemplateAbout(d), TemplateNarrative(d), TemplateThesis(d),
             TemplateAccomplishments(d), TemplateTrackRecord(d), TemplateExperience(d),
             TemplateSeeking(d), TemplateCulturalFit(d), TemplateSkills(d)>>)


\* ------------------------------------------------------------------------
\* A completed wizard run: the answers, the template, the records
\* ------------------------------------------------------------------------

MaxRecognition == 2

\* the least lengths the validators of coreThesis, theMoment and
\* professionalNarrative accept
MinThesisLength == 50
MinMomentLength == 50
MinNarrativeLength == 100

Repeat(c, n) == [i \in 1..n |-> c]

\* answers the text prompts accept: any text with a character that is no space
CellAnswers == { <<"$","5","M">>, <<"$","5","M"," ","|"," ","2"," ","y","r","s">>, <<"5","M"," ">>, <<"*","*","5","M","*","*">> }
LineAnswers == { <<"S","h","i","p"," ","i","t">>, <<"S","h","i","p"," ","<","!","-","-"," ","o","r"," ","n","o","t"," ","-","-",">"," ","i","t">>, <<"S","h","i","p"," "," ","i","t">> }
RecognitionAnswers == << <<"A","w","a","r","d">>, <<"T","a","l","k">>, <<"B","o","o","k">> >>

\* the WizardData of a completed run
Answers(value, philosophy, recognition) ==
    [name |-> <<"A","l"," ","B","o">>, preferredName |-> <<"A","l">>, title |-> <<"V","P">>, location |-> <<"R","o","m","e">>,
     coreThesis |-> Repeat("t", MinThesisLength),
     theMoment |-> Repeat("m", MinMomentLength),
     whatIOffer |-> <<[title |-> <<"O","p","s">>, description |-> <<"L","e","a","n">>],
                      [title |-> <<"W","F","M">>, description |-> <<"P","l","a","n","s">>]>>,
     professionalNarrative |-> Repeat("n", MinNarrativeLength),
     philosophy |-> philosophy,
     implications |-> <<<<"i","1">>, <<"i","2">>>>,
     financialImpact |-> <<[accomplishment |-> <<"C","u","t"," ","c","o","s","t">>, company |-> <<"A","c","m","e">>, value |-> value]>>,
     operationalScale |-> <<<<"5","k"," ","a","g","e","n","t","s">>>>,
     recognition |-> recognition,
     headlineStats |-> <<[stat |-> <<"4","0","%">>, context |-> <<"c","1">>], [stat |-> <<"9">>, context |-> <<"c","2">>]>>,
     experience |-> <<[title |-> <<"V","P">>, company |-> <<"A","c","m","e">>, dates |-> <<"2","0","2","0">>, location |-> <<"R","o","m","e">>,
                       description |-> <<"L","e","d">>, contributions |-> <<<<"k","1">>, <<"k","2">>>>]>>,
     targetRoles |-> <<<<"r","1">>, <<"r","2">>>>,
     reportingRelationship |-> <<"C","E","O">>,
     organizationTypes |-> <<[type |-> <<"P","E">>, whatIBring |-> <<"s","p","e","e","d">>]>>,
     industry |-> <<"B","P","O">>,
     thriveIn |-> <<<<"a">>, <<"b">>>>, notRightFor |-> <<<<"c">>, <<"d">>>>,
     methodologies |-> <<<<"m","1">>, <<"m","2">>>>, technical |-> <<<<"t","1">>, <<"t","2">>>>, domain |-> <<<<"d","1">>, <<"d","2">>>>]

InitRoundTrip ==
    /\ pc = "generateTemplate"
    /\ arg \in {Answers(v, ph, SubSeq(RecognitionAnswers, 1, n)) :
                    v \in CellAnswers, ph \in LineAnswers, n \in 0..MaxRecognition}
    /\ content = Missing /\ ret = <<>>
    /\ data = NoData /\ prev = NoPrev /\ dir = EmptyDir

\* main: const template = generateTemplate(data); writeFileSync(outputPath, template)
CallGenerateTemplate ==
    /\ pc = "generateTemplate"
    /\ content' = generateTemplate(arg)
    /\ pc' = "parseTemplate"
    /\ UNCHANGED <<arg, ret, data, prev, dir>>

\* parseTemplate(templatePath) on the file the wizard wrote
CallParseTemplate ==
    /\ pc = "parseTemplate"
    /\ data' = parseTemplate(content)
    /\ pc' = "parseTemplate.done"
    /\ UNCHANGED <<content, arg, ret, prev, dir>>

SpecRoundTrip == InitRoundTrip /\ [][CallGenerateTemplate \/ CallParseTemplate]_vars

\* the records that hold exactly the answers d
ExpectedOffers(d) ==
    Arr([i \in 1..Len(d.whatIOffer) |->
            Obj([title |-> Str(d.whatIOffer[i].title),
                 description |-> Str(d.whatIOffer[i].description)])])

ExpectedFinancial(d) ==
    Arr([i \in 1..Len(d.financialImpact) |->
            Obj([accomplishment |-> Str(d.financialImpact[i].accomplishment),
                 company |-> Str(d.financialImpact[i].company),
                 value |-> Str(d.financialImpact[i].value)])])

ExpectedRecords(d) ==
    ("about" :> Obj([name |-> Str(d.name), preferred_name |-> Str(d.preferredName),
                     title |-> Str(d.title), location |-> Str(d.location),
                     core_thesis |-> Str(d.coreThesis), the_moment |-> Str(d.theMoment),
                     what_i_offer |-> ExpectedOffers(d)]))
    @@ ("narrative" :> Obj([professional_narrative |-> Str(d.professionalNarrative),
                            philosophy |-> Str(d.philosophy)]))
    @@ ("thesis" :> Obj([core_thesis |-> Str(d.coreThesis), the_moment |-> Str(d.theMoment),
                         implications |-> StrArr(d.implications)]))
    @@ ("accomplishments" :> Obj([financial_impact |-> ExpectedFinancial(d),
                                  operational_scale |-> StrArr(d.operationalScale),
                                  recognition_innovation |-> StrArr(d.recognition)]))
    @@ ("track-record" :>
            Obj([headline_stats |->
                    Arr([i \in 1..Len(d.headlineStats) |->
                            Obj([stat |-> Str(d.headlineStats[i].stat),
                                 context |-> Str(d.headlineStats[i].context)])]),
                 financial_impact |-> ExpectedFinancial(d)]))
    @@ ("experience" :>
            Obj([experience |->
                    Arr([i \in 1..Len(d.experience) |->
                            Obj([title |-> Str(d.experience[i].title),
                                 company |-> Str(d.experience[i].company),
                                 dates |-> Str(d.experience[i].dates),
                                 location |-> Str(d.experience[i].location),
                                 description |-> Str(d.experience[i].description),
                                 contributions |-> StrArr(d.experience[i].contributions)])])]))
    @@ ("seeking" :>
            Obj([target_roles |-> StrArr(d.targetRoles),
                 reporting_relationship |-> Str(d.reportingRelationship),
                 organization_types |->
                    Arr([i \in 1..Len(d.organizationTypes) |->
                            Obj([type |-> Str(d.organizationTypes[i].type),
                                 what_i_bring |-> Str(d.organizationTypes[i].whatIBring)])]),
                 industry |-> Str(d.industry)]))
    @@ ("cultural-fit" :> Obj([thrive_in |-> StrArr(d.thriveIn),
                               not_right_for |-> StrArr(d.notRightFor)]))
    @@ ("skills" :> Obj([what_i_offer |-> ExpectedOffers(d),
                         expertise |-> Obj([methodologies |-> StrArr(d.methodologies),
                                            technical |-> StrArr(d.technical),
                                            domain |-> StrArr(d.domain)])]))

\* C22 (wizard-to-parser round trip): for the answers of a completed wizard
\* run, parsing the TEMPLATE.md that generateTemplate produces returns records
\* holding exactly those answers: every scalar, every list in order, every
\* table row with its cells, every role with its contributions.
C22_RoundTrip == pc = "parseTemplate.done" => data = ExpectedRecords(arg)

\* the same for the answers without a cell separator, a comment span or
\* spaces at an end or in a run
PlainAnswers ==
    /\ arg.financialImpact[1].value \in { <<"$","5","M">>, <<"*","*","5","M","*","*">> }
    /\ arg.philosophy = <<"S","h","i","p"," ","i","t">>

C22_PlainRoundTrip == (pc = "parseTemplate.done" /\ PlainAnswers) => data = ExpectedRecords(arg)


\* ------------------------------------------------------------------------
\* The wizard: generateTemplateFromPartial (escape hatch)
\* ------------------------------------------------------------------------

\* U+2190 of the placeholder marker, written with a character of the
\* module's alphabet that the parser gives no meaning to
LeftArrow == "^"

\* const PH
PH == <<LeftArrow>> \o <<" ","R","E","P","L","A","C","E"," ","T","H","I","S">>

\* `text ${PH}`
Placeholder(text) == text \o <<" ">> \o PH

\* data.key is a non-empty string; data.key && data.key.length > 0 for a list
Given(d, key) == key \in DOMAIN d /\ d[key] # <<>>

\* data.key || placeholder
OrElse(d, key, placeholder) == IF Given(d, key) THEN d[key] ELSE placeholder

PartialIntro ==
    Concat(<<<<"#"," ","L","i","v","i","n","g"," ","R","e","s","u","m","e"," ","A","P","I"," ">>, <<EmDash>>, <<" ","Y","o","u","r"," ","P","r","o","f","e","s","s","i","o","n","a","l"," ","P","r","o","f","i","l","e","\n","\n">>,
             <<">"," ","Y","o","u","r"," ","w","i","z","a","r","d"," ","a","n","s","w","e","r","s"," ","a","r","e"," ","f","i","l","l","e","d"," ","i","n"," ","b","e","l","o","w","."," ","R","e","p","l","a","c","e"," ","a","n","y"," ","\"">>, PH, <<"\"","\n">>,
             <<">"," ","p","l","a","c","e","h","o","l","d","e","r"," ","w","i","t","h"," ","y","o","u","r"," ","o","w","n"," ","c","o","n","t","e","n","t",","," ","t","h","e","n"," ","r","u","n",":"," ","b","u","n"," ","r","u","n"," ","d","e","p","l","o","y","\n","\n">>,
             <<"-","-","-","\n","\n">>>>)

PartialAbout(d) ==
    Concat(<<<<"#","#"," ","A","b","o","u","t","\n","\n">>,
             <<"*","*","N","a","m","e",":","*","*"," ">>, OrElse(d, "name", Placeholder(<<"Y","o","u","r"," ","N","a","m","e">>)), <<"\n","\n">>,
             <<"*","*","P","r","e","f","e","r","r","e","d"," ","N","a","m","e",":","*","*"," ">>, OrElse(d, "preferredName", Placeholder(<<"Y","o","u","r"," ","N","i","c","k","n","a","m","e">>)), <<"\n","\n">>,
             <<"*","*","T","i","t","l","e",":","*","*"," ">>, OrElse(d, "title", Placeholder(<<"V","P",","," ","Y","o","u","r"," ","S","p","e","c","i","a","l","t","y">>)), <<"\n","\n">>,
             <<"*","*","L","o","c","a","t","i","o","n",":","*","*"," ">>, OrElse(d, "location", Placeholder(<<"C","i","t","y",","," ","S","t","a","t","e">>)), <<"\n","\n">>,
             <<"*","*","C","o","r","e"," ","T","h","e","s","i","s",":","*","*","\n">>,
             OrElse(d, "coreThesis", Placeholder(<<"Y","o","u","r"," ","b","i","g"," ","i","d","e","a"," ","a","b","o","u","t"," ","h","o","w"," ","y","o","u","r"," ","i","n","d","u","s","t","r","y"," ","s","h","o","u","l","d"," ","w","o","r","k",".">>)), <<"\n","\n">>,
             <<"*","*","T","h","e"," ","M","o","m","e","n","t",":","*","*","\n">>,
             OrElse(d, "theMoment", Placeholder(<<"T","h","e"," ","e","x","p","e","r","i","e","n","c","e"," ","t","h","a","t"," ","c","r","y","s","t","a","l","l","i","z","e","d"," ","y","o","u","r"," ","t","h","e","s","i","s",".">>)), <<"\n","\n">>,
             <<"#","#","#"," ","W","h","a","t"," ","I"," ","O","f","f","e","r","\n","\n">>,
             IF Given(d, "whatIOffer")
             THEN Concat([k \in 1..Len(d.whatIOffer) |->
                     Concat(<<<<"-"," ","*","*","T","i","t","l","e",":","*","*"," ">>, d.whatIOffer[k].title, <<NL>>,
                              <<" "," ","*","*","D","e","s","c","r","i","p","t","i","o","n",":","*","*"," ">>, d.whatIOffer[k].description, <<"\n","\n">>>>)])
             ELSE Concat(<<<<"-"," ","*","*","T","i","t","l","e",":","*","*"," ">>, Placeholder(<<"C","a","p","a","b","i","l","i","t","y"," ","A","r","e","a"," ","1">>), <<NL>>,
                           <<" "," ","*","*","D","e","s","c","r","i","p","t","i","o","n",":","*","*"," ">>, Placeholder(<<"W","h","a","t"," ","y","o","u"," ","d","e","l","i","v","e","r"," ","i","n"," ","t","h","i","s"," ","a","r","e","a">>), <<"\n","\n">>,
                           <<"-"," ","*","*","T","i","t","l","e",":","*","*"," ">>, Placeholder(<<"C","a","p","a","b","i","l","i","t","y"," ","A","r","e","a"," ","2">>), <<NL>>,
                           <<" "," ","*","*","D","e","s","c","r","i","p","t","i","o","n",":","*","*"," ">>, Placeholder(<<"W","h","a","t"," ","y","o","u"," ","d","e","l","i","v","e","r"," ","i","n"," ","t","h","i","s"," ","a","r","e","a">>), <<"\n","\n">>>>),
             <<"-","-","-","\n","\n">>>>)

PartialNarrative(d) ==
    Concat(<<<<"#","#"," ","N","a","r","r","a","t","i","v","e","\n","\n">>,
             <<"*","*","P","r","o","f","e","s","s","i","o","n","a","l"," ","N","a","r","r","a","t","i","v","e",":","*","*","\n">>,
             OrElse(d, "professionalNarrative",
                    Placeholder(Concat(<<<<"Y","o","u","r"," ","c","a","r","e","e","r"," ","s","t","o","r","y"," ","i","n"," ","1","-","2"," ","p","a","r","a","g","r","a","p","h","s","."," ","N","o","t"," ","a"," ","l","i","s","t"," ","o","f"," ","j","o","b","s"," ">>, <<EmDash>>,
                                         <<" ","h","o","w"," ","d","o","e","s"," ","e","a","c","h"," ","c","h","a","p","t","e","r"," ","b","u","i","l","d"," ","o","n"," ","t","h","e"," ","l","a","s","t","?">>>>))),
             <<"\n","\n">>,
             <<"*","*","P","h","i","l","o","s","o","p","h","y",":","*","*","\n">>,
             OrElse(d, "philosophy", Placeholder(<<"Y","o","u","r"," ","o","p","e","r","a","t","i","n","g"," ","p","h","i","l","o","s","o","p","h","y"," ","i","n"," ","1","-","2"," ","s","e","n","t","e","n","c","e","s",".">>)), <<"\n","\n">>,
             <<"-","-","-","\n","\n">>>>)

PartialThesis(d) ==
    Concat(<<<<"#","#"," ","T","h","e","s","i","s","\n","\n">>,
             <<"*","*","C","o","r","e"," ","T","h","e","s","i","s",":","*","*","\n">>, OrElse(d, "coreThesis", Placeholder(<<"S","a","m","e"," ","a","s"," ","A","b","o","u","t"," ","s","e","c","t","i","o","n",".">>)), <<"\n","\n">>,
             <<"*","*","T","h","e"," ","M","o","m","e","n","t",":","*","*","\n">>, OrElse(d, "theMoment", Placeholder(<<"S","a","m","e"," ","a","s"," ","A","b","o","u","t"," ","s","e","c","t","i","o","n",".">>)), <<"\n","\n">>,
             <<"#","#","#"," ","I","m","p","l","i","c","a","t","i","o","n","s","\n","\n">>,
             IF Given(d, "implications") THEN Bullets(d.implications)
             ELSE Bullets(<<Placeholder(Concat(<<<<"W","h","a","t"," ","f","o","l","l","o","w","s"," ","l","o","g","i","c","a","l","l","y"," ","f","r","o","m"," ","y","o","u","r"," ","t","h","e","s","i","s"," ">>, <<EmDash>>,
                                                 <<" ","i","m","p","l","i","c","a","t","i","o","n"," ","1">>>>)),
                            Placeholder(<<"A","n","o","t","h","e","r"," ","l","o","g","i","c","a","l"," ","c","o","n","s","e","q","u","e","n","c","e"," ","o","f"," ","y","o","u","r"," ","w","o","r","l","d","v","i","e","w">>)>>),
             <<"\n","-","-","-","\n","\n">>>>)

PartialAccomplishments(d) ==
    Concat(<<<<"#","#"," ","A","c","c","o","m","p","l","i","s","h","m","e","n","t","s","\n","\n">>,
             <<"#","#","#"," ","F","i","n","a","n","c","i","a","l"," ","I","m","p","a","c","t","\n","\n">>,
             <<"|"," ","A","c","c","o","m","p","l","i","s","h","m","e","n","t"," ","|"," ","C","o","m","p","a","n","y"," ","|"," ","V","a","l","u","e"," ","|","\n">>,
             <<"|","-","-","-","-","-","-","-","-","-","-","-","-","-","-","-","-","|","-","-","-","-","-","-","-","-","-","|","-","-","-","-","-","-","-","|","\n">>,
             IF Given(d, "financialImpact")
             THEN Concat([k \in 1..Len(d.financialImpact) |->
                     Concat(<<<<"|"," ">>, d.financialImpact[k].accomplishment, <<" ","|"," ">>, d.financialImpact[k].company,
                              <<" ","|"," ">>, d.financialImpact[k].value, <<" ","|","\n">>>>)])
             ELSE Concat(<<<<"|"," ">>, Placeholder(<<"W","h","a","t"," ","y","o","u"," ","d","i","d">>), <<" ","|"," ">>, Placeholder(<<"C","o","m","p","a","n","y"," ","N","a","m","e">>),
                           <<" ","|"," ">>, Placeholder(<<"$","X"," ","s","a","v","i","n","g","s">>), <<" ","|","\n">>>>),
             <<"\n","#","#","#"," ","O","p","e","r","a","t","i","o","n","a","l"," ","S","c","a","l","e","\n","\n">>,
             IF Given(d, "operationalScale") THEN Bullets(d.operationalScale)
             ELSE Bullets(<<Placeholder(<<"S","c","a","l","e"," ","m","e","t","r","i","c",","," ","e",".","g","."," ","\"","M","a","n","a","g","e","d"," ","5",",","0","0","0"," ","a","g","e","n","t","s"," ","a","c","r","o","s","s"," ","8"," ","c","e","n","t","e","r","s","\"">>)>>),
             <<"\n","#","#","#"," ","R","e","c","o","g","n","i","t","i","o","n"," ","&"," ","I","n","n","o","v","a","t","i","o","n","\n","\n">>,
             IF Given(d, "recognition") THEN Bullets(d.recognition)
             ELSE Bullets(<<Placeholder(<<"A","w","a","r","d","s",","," ","c","e","r","t","i","f","i","c","a","t","i","o","n","s",","," ","o","r"," ","p","u","b","l","i","c","a","t","i","o","n","s">>)>>),
             <<"\n","-","-","-","\n","\n">>>>)

PartialTrackRecord(d) ==
    Concat(<<<<"#","#"," ","T","r","a","c","k"," ","R","e","c","o","r","d","\n","\n">>,
             <<"#","#","#"," ","H","e","a","d","l","i","n","e"," ","S","t","a","t","s","\n","\n">>,
             <<"|"," ","S","t","a","t"," ","|"," ","C","o","n","t","e","x","t"," ","|","\n">>,
             <<"|","-","-","-","-","-","-","|","-","-","-","-","-","-","-","-","-","|","\n">>,
             IF Given(d, "headlineStats")
             THEN Concat([k \in 1..Len(d.headlineStats) |->
                     Concat(<<<<"|"," ">>, d.headlineStats[k].stat, <<" ","|"," ">>, d.headlineStats[k].context, <<" ","|","\n">>>>)])
             ELSE Concat(<<<<"|"," ">>, Placeholder(<<"$","5","0","M","+">>), <<" ","|"," ">>, Placeholder(<<"T","o","t","a","l"," ","d","o","c","u","m","e","n","t","e","d"," ","c","o","s","t"," ","s","a","v","i","n","g","s">>), <<" ","|","\n">>,
                           <<"|"," ">>, Placeholder(<<"2","0","+"," ","y","e","a","r","s">>), <<" ","|"," ">>, Placeholder(<<"I","n","d","u","s","t","r","y"," ","e","x","p","e","r","i","e","n","c","e">>), <<" ","|","\n">>>>),
             <<"\n","-","-","-","\n","\n">>>>)

PartialExperience(d) ==
    Concat(<<<<"#","#"," ","E","x","p","e","r","i","e","n","c","e","\n","\n">>,
             IF Given(d, "experience")
             THEN Concat([k \in 1..Len(d.experience) |-> TemplateRole(d.experience[k], k - 1)])
             ELSE TemplateRole([title |-> Placeholder(<<"Y","o","u","r"," ","T","i","t","l","e">>),
                                company |-> Placeholder(<<"C","o","m","p","a","n","y"," ","N","a","m","e">>),
                                dates |-> Placeholder(<<"2","0","2","1"," ","-"," ","P","r","e","s","e","n","t">>),
                                location |-> Placeholder(<<"C","i","t","y",","," ","S","t","a","t","e">>),
                                description |-> Placeholder(<<"W","h","a","t"," ","y","o","u"," ","d","i","d"," ","i","n"," ","t","h","i","s"," ","r","o","l","e">>),
                                contributions |-> <<Placeholder(<<"K","e","y"," ","a","c","h","i","e","v","e","m","e","n","t"," ","o","r"," ","c","o","n","t","r","i","b","u","t","i","o","n">>),
                                                    Placeholder(<<"A","n","o","t","h","e","r"," ","k","e","y"," ","c","o","n","t","r","i","b","u","t","i","o","n">>)>>], 0),
             <<"-","-","-","\n","\n">>>>)

PartialSeeking(d) ==
    Concat(<<<<"#","#"," ","S","e","e","k","i","n","g","\n","\n">>,
             <<"*","*","T","a","r","g","e","t"," ","R","o","l","e","s",":","*","*","\n">>,
             IF Given(d, "targetRoles") THEN Bullets(d.targetRoles)
             ELSE Bullets(<<Placeholder(<<"V","P",","," ","Y","o","u","r"," ","S","p","e","c","i","a","l","t","y">>), Placeholder(<<"A","n","o","t","h","e","r"," ","t","a","r","g","e","t"," ","t","i","t","l","e">>)>>),
             <<"\n","*","*","R","e","p","o","r","t","i","n","g"," ","R","e","l","a","t","i","o","n","s","h","i","p",":","*","*","\n">>,
             OrElse(d, "reportingRelationship", Placeholder(<<"W","h","o"," ","y","o","u"," ","e","x","p","e","c","t"," ","t","o"," ","r","e","p","o","r","t"," ","t","o">>)), <<"\n","\n">>,
             <<"#","#","#"," ","O","r","g","a","n","i","z","a","t","i","o","n"," ","T","y","p","e","s","\n","\n">>,
             <<"|"," ","O","r","g","a","n","i","z","a","t","i","o","n"," ","T","y","p","e"," ","|"," ","W","h","a","t"," ","I"," ","B","r","i","n","g"," ","|","\n">>,
             <<"|","-","-","-","-","-","-","-","-","-","-","-","-","-","-","-","-","-","-","-","|","-","-","-","-","-","-","-","-","-","-","-","-","-","-","|","\n">>,
             IF Given(d, "organizationTypes")
             THEN Concat([k \in 1..Len(d.organizationTypes) |->
                     Concat(<<<<"|"," ">>, d.organizationTypes[k].type, <<" ","|"," ">>, d.organizationTypes[k].whatIBring, <<" ","|","\n">>>>)])
             ELSE Concat(<<<<"|"," ">>, Placeholder(<<"F","o","r","t","u","n","e"," ","5","0","0">>), <<" ","|"," ">>,
                           Placeholder(<<"W","h","a","t"," ","y","o","u"," ","b","r","i","n","g"," ","t","o"," ","t","h","i","s"," ","t","y","p","e">>), <<" ","|","\n">>>>),
             <<"\n","*","*","I","n","d","u","s","t","r","y",":","*","*","\n">>, OrElse(d, "industry", Placeholder(<<"T","a","r","g","e","t"," ","i","n","d","u","s","t","r","i","e","s">>)), <<"\n","\n">>,
             <<"-","-","-","\n","\n">>>>)

PartialCulturalFit(d) ==
    Concat(<<<<"#","#"," ","C","u","l","t","u","r","a","l"," ","F","i","t","\n","\n">>,
             <<"#","#","#"," ","I"," ","T","h","r","i","v","e"," ","I","n","\n","\n">>,
             IF Given(d, "thriveIn") THEN Bullets(d.thriveIn)
             ELSE Bullets(<<Placeholder(<<"E","n","v","i","r","o","n","m","e","n","t","s"," ","w","h","e","r","e"," ","y","o","u"," ","d","o"," ","y","o","u","r"," ","b","e","s","t"," ","w","o","r","k">>),
                            Placeholder(<<"A","n","o","t","h","e","r"," ","e","n","v","i","r","o","n","m","e","n","t"," ","t","r","a","i","t">>)>>),
             <<"\n","#","#","#"," ","N","o","t"," ","R","i","g","h","t"," ","F","o","r","\n","\n">>,
             IF Given(d, "notRightFor") THEN Bullets(d.notRightFor)
             ELSE Bullets(<<Placeholder(<<"E","n","v","i","r","o","n","m","e","n","t","s"," ","t","h","a","t"," ","a","r","e","n","'","t"," ","a"," ","g","o","o","d"," ","m","a","t","c","h">>),
                            Placeholder(<<"A","n","o","t","h","e","r"," ","e","n","v","i","r","o","n","m","e","n","t"," ","t","o"," ","a","v","o","i","d">>)>>),
             <<"\n","-","-","-","\n","\n">>>>)

PartialSkills(d) ==
    Concat(<<<<"#","#"," ","S","k","i","l","l","s","\n","\n">>,
             <<"#","#","#"," ","M","e","t","h","o","d","o","l","o","g","i","e","s","\n","\n">>,
             IF Given(d, "methodologies") THEN Bullets(d.methodologies)
             ELSE Bullets(<<Placeholder(<<"S","i","x"," ","S","i","g","m","a",","," ","L","e","a","n",","," ","e","t","c",".">>)>>),
             <<"\n","#","#","#"," ","T","e","c","h","n","i","c","a","l","\n","\n">>,
             IF Given(d, "technical") THEN Bullets(d.technical)
             ELSE Bullets(<<Placeholder(<<"T","o","o","l","s",","," ","l","a","n","g","u","a","g","e","s",","," ","p","l","a","t","f","o","r","m","s">>)>>),
             <<"\n","#","#","#"," ","D","o","m","a","i","n"," ","E","x","p","e","r","t","i","s","e","\n","\n">>,
             IF Given(d, "domain") THEN Bullets(d.domain)
             ELSE Bullets(<<Placeholder(<<"Y","o","u","r"," ","a","r","e","a","s"," ","o","f"," ","d","e","e","p"," ","k","n","o","w","l","e","d","g","e">>)>>),
             <<NL>>>>)

\* generateTemplateFromPartial(data): the text of TEMPLATE.md at a breakout
generateTemplateFromPartial(d) ==
    Concat(<<PartialIntro, PartialAbout(d), PartialNarrative(d), PartialThesis(d),
             PartialAccomplishments(d), PartialTrackRecord(d), PartialExperience(d),
             PartialSeeking(d), PartialCulturalFit(d), PartialSkills(d)>>)

\* the keys of data that are set when the first and the second checkpoint
\* are reached
CheckpointKeys ==
    <<{"name", "preferredName", "title", "location", "coreThesis", "theMoment",
       "professionalNarrative", "philosophy"},
      {"name", "preferredName", "title", "location", "coreThesis", "theMoment",
       "professionalNarrative", "philosophy", "whatIOffer", "implications",
       "financialImpact", "operationalScale", "recognition"}>>

\* the Partial<WizardData> of a run that has reached a checkpoint
PartialAnswers(d, checkpoint) == [k \in CheckpointKeys[checkpoint] |-> d[k]]

InitBreakout ==
    /\ pc = "generateTemplateFromPartial"
    /\ arg \in {PartialAnswers([Answers(v, ph, SubSeq(RecognitionAnswers, 1, n))
                                  EXCEPT !.preferredName = pn], c) :
                    v \in CellAnswers, ph \in LineAnswers, n \in 0..MaxRecognition,
                    pn \in { <<"A","l">>, <<>> }, c \in {1, 2}}
    /\ content = Missing /\ ret = <<>>
    /\ data = NoData /\ prev = NoPrev /\ dir = EmptyDir

\* offerEscapeHatch, choice 'breakout': generateTemplateFromPartial(data),
\* writeFileSync(outputPath, template)
CallGenerateTemplateFromPartial ==
    /\ pc = "generateTemplateFromPartial"
    /\ content' = generateTemplateFromPartial(arg)
    /\ pc' = "parseTemplate"
    /\ UNCHANGED <<arg, ret, data, prev, dir>>

SpecBreakout == InitBreakout /\ [][CallGenerateTemplateFromPartial \/ CallParseTemplate]_vars

\* the text every placeholder of generateTemplateFromPartial ends with
PlaceholderMark == <<"R","E","P","L","A","C","E"," ","T","H","I","S">>

\* C23 (breakout placeholders are unset): after a breakout at a checkpoint no
\* string of any record parsed from the saved TEMPLATE.md holds placeholder
\* text, and the records of the sections the user has not reached are empty.
C23_PlaceholdersUnset ==
    pc = "parseTemplate.done" =>
        /\ \A e \in EndpointSet : \A s \in Strings(data[e]) : ~Includes(s, PlaceholderMark)
        /\ \A e \in {"experience", "seeking", "cultural-fit"} : ~HasContent(data[e])


\* ------------------------------------------------------------------------
\* The wizard: the prompts of runWizard and main
\* ------------------------------------------------------------------------

TextStep(key) ==
    [kind |-> "text", key |-> key, max |-> 1, free |-> 1, required |-> 1, fields |-> 1, inner |-> FALSE]

\* a for loop of prompts: max iterations, a confirm before every iteration
\* after the first `free`, an empty first answer refused in the first
\* `required`, `fields` text prompts per item, a nested loop of contributions
ListStep(key, max, free, required, fields, inner) ==
    [kind |-> "list", key |-> key, max |-> max, free |-> free, required |-> required,
     fields |-> fields, inner |-> inner]

OtherStep(kind, key) ==
    [kind |-> kind, key |-> key, max |-> 1, free |-> 1, required |-> 1, fields |-> 1, inner |-> FALSE]

\* the prompts of runWizard in program order
WizardSteps ==
    <<OtherStep("welcome", "shouldContinue"),
      TextStep("name"), TextStep("preferredName"), TextStep("title"), TextStep("location"),
      TextStep("coreThesis"), TextStep("theMoment"), TextStep("professionalNarrative"),
      TextStep("philosophy"),
      OtherStep("checkpoint", "breakout1"),
      ListStep("whatIOffer", 4, 2, 2, 2, FALSE),
      ListStep("implications", 5, 2, 2, 1, FALSE),
      ListStep("financialImpact", 5, 1, 1, 3, FALSE),
      ListStep("operationalScale", 5, 1, 1, 1, FALSE),
      OtherStep("addRecognition", "recognition"),
      ListStep("recognition", 5, 1, 0, 1, FALSE),
      OtherStep("checkpoint", "breakout2"),
      ListStep("headlineStats", 5, 2, 2, 2, FALSE),
      ListStep("experience", 5, 1, 1, 5, TRUE),
      ListStep("targetRoles", 5, 2, 2, 1, FALSE),
      TextStep("reportingRelationship"),
      ListStep("organizationTypes", 3, 1, 1, 2, FALSE),
      TextStep("industry"),
      ListStep("thriveIn", 5, 2, 2, 1, FALSE),
      ListStep("notRightFor", 5, 2, 2, 1, FALSE),
      ListStep("methodologies", 5, 2, 2, 1, FALSE),
      ListStep("technical", 5, 2, 2, 1, FALSE),
      ListStep("domain", 5, 2, 2, 1, FALSE)>>

\* for (let j = 0; j < 5; j++) { if (j > 1) confirm ...; validate: j < 2 }
MaxContributions == 5
FreeContributions == 2

\* the text prompts without a validate function
NoValidate == {"preferredName"}

\* the answers to a prompt; "cancel" is the value p.isCancel recognises
ConfirmAnswers == {"yes", "no", "cancel"}
TextAnswers == {"text", "empty", "cancel"}
SelectAnswers == {"continue", "breakout", "cancel"}

\* the files of the working directory the wizard writes
NoFiles == {}
WizardFiles == {"TEMPLATE.md", "profile-data.json"}

Step == WizardSteps[arg.step]

InitWizard ==
    /\ pc = "runWizard"
    /\ arg = [step |-> 1, i |-> 0, field |-> 1, j |-> 0, phase |-> "field", answer |-> "none"]
    /\ ret = "pending"
    /\ data = {}
    /\ dir = NoFiles
    /\ content = Missing /\ prev = NoPrev

\* the run goes on with the prompt of step s (the loop variables reset; a
\* list is set to [] before its loop, recognition before its confirm), or
\* runWizard returns data when there is none
Advance(s, a) ==
    /\ arg' = [step |-> s, i |-> 0, field |-> 1, j |-> 0, phase |-> "field", answer |-> a]
    /\ IF s > Len(WizardSteps)
       THEN pc' = "main" /\ ret' = "data" /\ data' = data
       ELSE /\ pc' = "runWizard" /\ ret' = ret
            /\ data' = IF WizardSteps[s].kind \in {"list", "addRecognition"}
                       THEN data \cup {WizardSteps[s].key} ELSE data
    /\ UNCHANGED dir

\* return null; main: if (!data) process.exit(0)
ReturnNull(a) ==
    /\ arg' = [arg EXCEPT !.answer = a]
    /\ pc' = "exit0" /\ ret' = "null"
    /\ UNCHANGED <<data, dir>>

\* the item is pushed and the loop goes to its next iteration or ends
NextItem(a) ==
    IF arg.i + 1 < Step.max
    THEN /\ arg' = [arg EXCEPT !.i = @ + 1, !.field = 1, !.j = 0,
                               !.phase = IF arg.i + 1 >= Step.free THEN "confirm" ELSE "field",
                               !.answer = a]
         /\ UNCHANGED <<pc, ret, data, dir>>
    ELSE Advance(arg.step + 1, a)

\* the confirm that opens runWizard
AnswerWelcome ==
    /\ pc = "runWizard" /\ Step.kind = "welcome"
    /\ \E a \in ConfirmAnswers :
          IF a = "yes" THEN Advance(arg.step + 1, a) ELSE ReturnNull(a)
    /\ UNCHANGED <<content, prev>>

\* data.key = await p.text(...); if (p.isCancel(data.key)) return null
AnswerText ==
    /\ pc = "runWizard" /\ Step.kind = "text"
    /\ \E a \in TextAnswers :
          /\ a = "empty" => Step.key \in NoValidate
          /\ IF a = "cancel" THEN ReturnNull(a)
             ELSE /\ arg' = [step |-> arg.step + 1, i |-> 0, field |-> 1, j |-> 0,
                             phase |-> "field", answer |-> a]
                  /\ IF arg.step + 1 > Len(WizardSteps)
                     THEN pc' = "main" /\ ret' = "data" /\ data' = data \cup {Step.key}
                     ELSE /\ pc' = "runWizard" /\ ret' = ret
                          /\ data' = data \cup {Step.key}
                                      \cup (IF WizardSteps[arg.step + 1].kind \in {"list", "addRecognition"}
                                            THEN {WizardSteps[arg.step + 1].key} ELSE {})
                  /\ UNCHANGED dir
    /\ UNCHANGED <<content, prev>>

\* offerEscapeHatch and the test of its result in runWizard
AnswerEscapeHatch ==
    /\ pc = "runWizard" /\ Step.kind = "checkpoint"
    /\ \E a \in SelectAnswers :
          CASE a = "cancel" -> ReturnNull(a)
            [] a = "breakout" ->
                  /\ dir' = dir \cup {"TEMPLATE.md"}
                                \cup (IF "name" \in data THEN {"profile-data.json"} ELSE {})
                  /\ arg' = [arg EXCEPT !.answer = a]
                  /\ pc' = "exit0" /\ ret' = "null"
                  /\ UNCHANGED data
            [] OTHER -> Advance(arg.step + 1, a)
    /\ UNCHANGED <<content, prev>>

\* const addRecognition = await p.confirm(...)
AnswerAddRecognition ==
    /\ pc = "runWizard" /\ Step.kind = "addRecognition"
    /\ \E a \in ConfirmAnswers :
          CASE a = "cancel" -> ReturnNull(a)
            [] a = "yes" -> Advance(arg.step + 1, a)
            [] OTHER -> Advance(arg.step + 2, a)
    /\ UNCHANGED <<content, prev>>

\* const addAnother = await p.confirm(...);
\* if (p.isCancel(addAnother) || !addAnother) break
AnswerAddAnother ==
    /\ pc = "runWizard" /\ Step.kind = "list" /\ arg.phase = "confirm"
    /\ \E a \in ConfirmAnswers :
          IF a = "yes"
          THEN /\ arg' = [arg EXCEPT !.phase = "field", !.answer = a]
               /\ UNCHANGED <<pc, ret, data, dir>>
          ELSE Advance(arg.step + 1, a)
    /\ UNCHANGED <<content, prev>>

\* a text prompt of a list item: the first may end the list with an empty
\* answer once the required items are in, the others are all validated
AnswerItemText ==
    /\ pc = "runWizard" /\ Step.kind = "list" /\ arg.phase = "field"
    /\ \E a \in TextAnswers :
          /\ a = "empty" => (arg.field = 1 /\ arg.i >= Step.required)
          /\ CASE a = "cancel" -> ReturnNull(a)
               [] a = "empty" -> Advance(arg.step + 1, a)
               [] OTHER ->
                     IF arg.field < Step.fields
                     THEN /\ arg' = [arg EXCEPT !.field = @ + 1, !.answer = a]
                          /\ UNCHANGED <<pc, ret, data, dir>>
                     ELSE IF Step.inner
                     THEN /\ arg' = [arg EXCEPT !.phase = "inner", !.j = 0, !.answer = a]
                          /\ UNCHANGED <<pc, ret, data, dir>>
                     ELSE NextItem(a)
    /\ UNCHANGED <<content, prev>>

\* const addContribution = await p.confirm(...);
\* if (p.isCancel(addContribution) || !addContribution) break
AnswerAddContribution ==
    /\ pc = "runWizard" /\ Step.kind = "list" /\ arg.phase = "innerConfirm"
    /\ \E a \in ConfirmAnswers :
          IF a = "yes"
          THEN /\ arg' = [arg EXCEPT !.phase = "inner", !.answer = a]
               /\ UNCHANGED <<pc, ret, data, dir>>
          ELSE NextItem(a)
    /\ UNCHANGED <<content, prev>>

\* const contribution = await p.text(...)
AnswerContribution ==
    /\ pc = "runWizard" /\ Step.kind = "list" /\ arg.phase = "inner"
    /\ \E a \in TextAnswers :
          /\ a = "empty" => arg.j >= FreeContributions
          /\ CASE a = "cancel" -> ReturnNull(a)
               [] a = "empty" -> NextItem(a)
               [] OTHER ->
                     IF arg.j + 1 < MaxContributions
                     THEN /\ arg' = [arg EXCEPT !.j = @ + 1,
                                        !.phase = IF arg.j + 1 >= FreeContributions
                                                  THEN "innerConfirm" ELSE "inner",
                                        !.answer = a]
                          /\ UNCHANGED <<pc, ret, data, dir>>
                     ELSE NextItem(a)
    /\ UNCHANGED <<content, prev>>

\* main after runWizard returned data: the confirm, then generateTemplate
\* and the two writeFileSync
AnswerGenerate ==
    /\ pc = "main"
    /\ \E a \in ConfirmAnswers :
          /\ arg' = [arg EXCEPT !.answer = a]
          /\ IF a = "yes"
             THEN pc' = "done" /\ dir' = dir \cup WizardFiles
             ELSE pc' = "exit0" /\ dir' = dir
    /\ UNCHANGED <<content, ret, data, prev>>

NextWizard ==
    \/ AnswerWelcome \/ AnswerText \/ AnswerEscapeHatch \/ AnswerAddRecognition
    \/ AnswerAddAnother \/ AnswerItemText \/ AnswerAddContribution \/ AnswerContribution
    \/ AnswerGenerate

SpecWizard == InitWizard /\ [][NextWizard]_vars

\* C29 (wizard cancellation): cancelling at any prompt ends the run at once:
\* the process has exited, no file was written, and runWizard returned null
\* when the prompt was one of its own.
C29_CancelEndsRun ==
    arg.answer = "cancel" =>
        /\ pc = "exit0"
        /\ dir = NoFiles
        /\ arg.step <= Len(WizardSteps) => ret = "null"


\* ------------------------------------------------------------------------
\* deploy.ts: the 'deploy' pipeline and verify
\* ------------------------------------------------------------------------

MaxEndpoints == 2

MAX_RETRIES == 3

\* a table of delays that does not grow
DELAYS_Flat == <<5, 5, 5>>

\* seconds
DELAYS == <<5, 10, 15>>

\* the outcomes of a fetch: a response with an OK status, a response with
\* another status, an exception (of fetch, or of json() on the root response)
FetchOutcomes == {"ok", "notok", "throw"}

\* the template files the pipeline is run on
PipelineTemplates == { Missing, <<"#","#"," ","A","b","o","u","t","\n","*","*","N","a","m","e",":","*","*"," ","A","l">> }

\* config.json (absent, with the placeholder or no worker name, with a worker
\* name), the CODESPACES and CLOUDFLARE_API_TOKEN variables, profile-data.json,
\* and whether the name of wrangler.toml is the worker name of config.json
Environments ==
    [config : {"missing", "placeholder", "ok"}, codespace : BOOLEAN, token : BOOLEAN,
     profile : BOOLEAN, toml : {"match", "mismatch"}]

\* the local variables of verify before its loop
VerifyLocals ==
    [attempt |-> 0, requests |-> 0, waits |-> <<>>, rootOk |-> FALSE,
     listed |-> 0, passed |-> 0, failed |-> 0, returned |-> FALSE, result |-> FALSE]

InitDeploy ==
    /\ pc = "cli"
    /\ \E command \in {"deploy", "verify"}, env \in Environments :
          arg = [command |-> command, env |-> env, env0 |-> env, verify |-> VerifyLocals]
    /\ content \in PipelineTemplates
    /\ ret = [started |-> <<>>, results |-> <<>>, exit |-> -1, live |-> FALSE]
    /\ data = NoData /\ prev = NoPrev /\ dir = EmptyDir

\* needsSetup || needsAuth
NeedsSetup(env) ==
    \/ env.config \in {"missing", "placeholder"}
    \/ env.codespace /\ ~env.token

\* process.exit(1) after the step that failed
ExitAfter(step) ==
    /\ ret' = [ret EXCEPT !.started = Append(@, step), !.results = Append(@, FALSE), !.exit = 1]
    /\ pc' = "exit"

Succeeded(step) ==
    ret' = [ret EXCEPT !.started = Append(@, step), !.results = Append(@, TRUE)]

\* case "verify": const ok = await verify()
VerifyCommand ==
    /\ pc = "cli" /\ arg.command = "verify"
    /\ pc' = "verify"
    /\ UNCHANGED <<content, arg, ret, data, prev, dir>>

\* default command: loadConfig, needsSetup, needsAuth, and setup() when one
\* of them holds: authentication (token or wrangler login), then config.json
\* is created from profile-data.json unless it exists
PipelineSetup ==
    /\ pc = "cli" /\ arg.command = "deploy"
    /\ IF NeedsSetup(arg.env)
       THEN \E auth \in BOOLEAN :
               IF ~auth THEN ExitAfter("setup") /\ UNCHANGED arg
               ELSE /\ Succeeded("setup")
                    /\ arg' = [arg EXCEPT
                                 !.env.token = IF arg.env.codespace THEN TRUE ELSE @,
                                 !.env.config = IF @ = "missing"
                                                THEN (IF arg.env.profile THEN "ok" ELSE "placeholder")
                                                ELSE @,
                                 !.env.toml = IF arg.env.config = "missing" THEN "match" ELSE @]
                    /\ pc' = "pipeline.parse"
       ELSE pc' = "pipeline.parse" /\ UNCHANGED <<arg, ret>>
    /\ UNCHANGED <<content, data, prev, dir>>

\* a pipeline that goes on to deploy whatever parse returned
PipelineParse_Continue ==
    /\ pc = "pipeline.parse"
    /\ IF content = Missing
       THEN /\ ret' = [ret EXCEPT !.started = Append(@, "parse"), !.results = Append(@, FALSE)]
            /\ UNCHANGED <<data, dir>>
       ELSE /\ Succeeded("parse")
            /\ ParseWrites(parseTemplate(content))
    /\ pc' = "pipeline.deploy"
    /\ UNCHANGED <<content, arg, prev>>

\* const parseOk = await parse(); if (!parseOk) process.exit(1)
PipelineParse ==
    /\ pc = "pipeline.parse"
    /\ IF content = Missing
       THEN ExitAfter("parse") /\ UNCHANGED <<data, dir>>
       ELSE /\ Succeeded("parse")
            /\ ParseWrites(parseTemplate(content))
            /\ pc' = "pipeline.deploy"
    /\ UNCHANGED <<content, arg, prev>>

\* const deployOk = await deploy(); if (!deployOk) process.exit(1)
PipelineDeploy ==
    /\ pc = "pipeline.deploy"
    /\ \E exitCode \in {0, 1} :
          IF \/ arg.env.config # "ok"
             \/ arg.env.toml # "match"
             \/ DOMAIN dir = {}
             \/ exitCode # 0
          THEN ExitAfter("deploy")
          ELSE Succeeded("deploy") /\ pc' = "verify"
    /\ UNCHANGED <<content, arg, data, prev, dir>>

\* return r, in verify
VerifyReturn(v, r) ==
    /\ arg' = [arg EXCEPT !.verify = [v EXCEPT !.returned = TRUE, !.result = r]]
    /\ ret' = [ret EXCEPT !.results = Append(@, r)]
    /\ pc' = "verify.returned"

\* verify up to its loop: loadConfig, getWorkerURL
VerifyStart ==
    /\ pc = "verify"
    /\ IF arg.env.config = "missing"
       THEN /\ arg' = [arg EXCEPT !.verify = [VerifyLocals EXCEPT !.returned = TRUE]]
            /\ ret' = [ret EXCEPT !.started = Append(@, "verify"), !.results = Append(@, FALSE)]
            /\ pc' = "verify.returned"
       ELSE /\ arg' = [arg EXCEPT !.verify = VerifyLocals]
            /\ ret' = [ret EXCEPT !.started = Append(@, "verify")]
            /\ pc' = "verify.wait"
    /\ UNCHANGED <<content, data, prev, dir>>

\* await new Promise((r) => setTimeout(r, DELAYS[...] * 1000)): DELAYS[0]
\* before the first attempt, DELAYS[attempt + 1] before the attempt after
VerifyWait ==
    /\ pc = "verify.wait"
    /\ arg' = [arg EXCEPT !.verify.waits = Append(@, DELAYS[arg.verify.attempt + 1])]
    /\ pc' = "verify.fetch"
    /\ UNCHANGED <<content, ret, data, prev, dir>>

\* const rootRes = await fetch(baseUrl) and what follows up to the loop over
\* the endpoints, or the catch
VerifyFetchRoot ==
    /\ pc = "verify.fetch"
    /\ \E outcome \in FetchOutcomes, n \in 0..MaxEndpoints :
          LET v == [arg.verify EXCEPT !.requests = @ + 1] IN
          CASE outcome = "ok" ->
                  IF n = 0
                  THEN VerifyReturn([v EXCEPT !.rootOk = TRUE], TRUE)
                  ELSE /\ arg' = [arg EXCEPT !.verify = [v EXCEPT !.rootOk = TRUE, !.listed = n]]
                       /\ pc' = "verify.endpoints"
                       /\ UNCHANGED ret
            [] outcome # "ok" /\ v.attempt < MAX_RETRIES - 1 ->
                  /\ arg' = [arg EXCEPT !.verify = [v EXCEPT !.attempt = @ + 1]]
                  /\ pc' = "verify.wait"
                  /\ UNCHANGED ret
            [] outcome = "notok" /\ v.attempt >= MAX_RETRIES - 1 -> VerifyReturn(v, FALSE)
            [] OTHER -> VerifyReturn(v, TRUE)
    /\ UNCHANGED <<content, data, prev, dir>>

\* one iteration of for (const endpoint of endpoints), and after the last
\* return failed === 0
VerifyCheckEndpoint ==
    /\ pc = "verify.endpoints"
    /\ \E outcome \in FetchOutcomes :
          LET v == IF outcome = "ok" THEN [arg.verify EXCEPT !.passed = @ + 1]
                   ELSE [arg.verify EXCEPT !.failed = @ + 1] IN
          IF v.passed + v.failed = v.listed
          THEN VerifyReturn(v, v.failed = 0)
          ELSE arg' = [arg EXCEPT !.verify = v] /\ pc' = "verify.endpoints" /\ UNCHANGED ret
    /\ UNCHANGED <<content, data, prev, dir>>

\* after verify: process.exit(ok ? 0 : 1) of the 'verify' command, or the end
\* of the pipeline, which prints that the API is live when verifyOk
CliExit ==
    /\ pc = "verify.returned"
    /\ ret' = [ret EXCEPT !.exit = IF arg.verify.result THEN 0 ELSE 1,
                          !.live = /\ arg.command = "deploy"
                                   /\ arg.verify.result
                                   /\ arg.env.config # "missing"]
    /\ pc' = "exit"
    /\ UNCHANGED <<content, arg, data, prev, dir>>

NextDeploy ==
    \/ VerifyCommand \/ PipelineSetup \/ PipelineParse \/ PipelineDeploy
    \/ VerifyStart \/ VerifyWait \/ VerifyFetchRoot \/ VerifyCheckEndpoint \/ CliExit

SpecDeploy == InitDeploy /\ [][NextDeploy]_vars

\* the steps of verify
VerifyStep == VerifyStart \/ VerifyWait \/ VerifyFetchRoot \/ VerifyCheckEndpoint

\* every await of verify settles: a timer fires, a fetch answers or throws
SpecDeployFair == InitDeploy /\ [][NextDeploy]_vars /\ WF_vars(VerifyStep)

\* C24 (live means verified): the pipeline prints that the API is live and
\* exits with status 0 only if, in verify, the root endpoint answered with an
\* OK status and every endpoint it lists answered with an OK status.
C24_LiveMeansVerified ==
    (arg.command = "deploy" /\ pc = "exit" /\ (ret.live \/ ret.exit = 0)) =>
        /\ ret.live /\ ret.exit = 0
        /\ arg.verify.rootOk
        /\ arg.verify.passed = arg.verify.listed
        /\ arg.verify.failed = 0

\* config.json gives no worker name to deploy to, or there is no API token
ConfigOrCredentialsMissing(env) == env.config # "ok" \/ ~env.token

\* C25 (pipeline ordering): the steps of the default command start in the
\* order setup (only when config or credentials are missing), parse, deploy,
\* verify; a step starts only after every earlier step reported success; the
\* process exits with a non-zero status at the first failure, without
\* starting a later step, and with 0 only after all of them succeeded.
C25_PipelineOrdering ==
    arg.command = "deploy" =>
        LET n == Len(ret.started)
            withSetup == n > 0 /\ ret.started[1] = "setup"
            steps == (IF withSetup THEN <<"setup">> ELSE <<>>) \o <<"parse", "deploy", "verify">>
        IN  /\ n <= Len(steps) /\ ret.started = SubSeq(steps, 1, n)
            /\ withSetup => ConfigOrCredentialsMissing(arg.env0)
            /\ Len(ret.results) \in {n - 1, n} \cap Nat
            /\ \A k \in 1..(n - 1) : ret.results[k]
            /\ (Len(ret.results) = n /\ n > 0 /\ ~ret.results[n]) =>
                  (pc = "exit" /\ ret.exit = 1) \/ (pc = "verify.returned" /\ n = Len(steps))
            /\ pc = "exit" =>
                  /\ ret.exit \in {0, 1}
                  /\ ret.exit = 0 <=> (n = Len(steps) /\ \A k \in 1..n : ret.results[k])

C25_Witness ==
    /\ arg.command = "deploy" /\ pc = "exit" /\ ret.exit = 1
    /\ ret.started = <<"setup", "parse", "deploy">>
    /\ ret.results = <<TRUE, TRUE, FALSE>>

\* C30 (verify retry bound): verify requests the root endpoint at most 3
\* times, after waits of 5 s, then 10 s, then 15 s, one before each request,
\* and always returns a boolean, whatever the responses or exceptions.
C30_VerifyRetryBound ==
    /\ [](/\ arg.verify.requests <= 3
          /\ arg.verify.waits = SubSeq(<<5, 10, 15>>, 1, Len(arg.verify.waits))
          /\ Len(arg.verify.waits) \in {arg.verify.requests, arg.verify.requests + 1}
          /\ pc = "verify.fetch" => Len(arg.verify.waits) = arg.verify.requests + 1
          /\ arg.verify.returned => arg.verify.result \in BOOLEAN)
    /\ (pc = "verify") ~> (pc = "verify.returned" /\ arg.verify.returned)

C30_Witness ==
    /\ pc = "verify.returned" /\ arg.verify.returned
    /\ arg.verify.requests = 3
    /\ arg.verify.waits = <<5, 10, 15>>

====
